---- MODULE Spec2Model ----
(***************************************************************************)
(* Tick loops of the AR demo.  src/src/main.js holds two applications,     *)
(* both called ARApp: the heuristic one (lines 6-126, tracking flag        *)
(* isTracking, detector from src/src/detector.js) and the AR.js one        *)
(* (lines 135-684, tracking flag isMarkerDetected).  A page runs one of    *)
(* them; the variable app says which.  One animation frame is one action:  *)
(* the whole of animate() including every handler it calls.  The order of  *)
(* the calls inside a tick is kept in the variable trace.                  *)
(*                                                                         *)
(* Spec is an application from its constructor on: the start-up chain of   *)
(* the AR.js ARApp (waitForARJS, init) and the ticks.  StartupSpec is the  *)
(* start-up chain alone, with the timer of waitForARJS fair.  LoaderSpec   *)
(* is an AssetLoader (src/unnamed/part_002) called by any client.          *)
(* PlaybackSpec is the applications with the clip of the video plane       *)
(* advancing between the ticks.  DetectorSpec is the two detectors of      *)
(* src/src/detector.js called on a video element that holds a picture.     *)
(* OverlaySpec is the fullscreen overlay of the legacy page, src/app.js.   *)
(***************************************************************************)
EXTENDS Integers, Sequences, FiniteSets, TLC

VARIABLES
    app,                      \* "heuristic" or "arjs": which ARApp the page runs
    started,                  \* init() has reached this.animate()
    rafPending,               \* a requestAnimationFrame callback is queued
    trace,                    \* calls made by the most recent tick, in order
    tickIn,                   \* what the environment did in the most recent tick
    pre,                      \* the application's fields when that tick began
    escaped,                  \* exception that left the most recent tick callback
    \* heuristic ARApp
    detectorVariant,          \* which initARDetector of detector.js is installed
    isTracking,
    arVideoVisible,           \* this.arVideo.visible
    arVideoPaused,            \* this.arVideo.userData.videoElement.paused
    arVideoCurrentTime,       \* ... .currentTime, in frames of the clip
    cameraMatrixWorldInverse, \* this.camera.matrixWorldInverse (the pose)
    arVideoMatrix,            \* this.arVideo.matrix
    debugInfo,                \* this.debugInfo.textContent
    \* AR.js ARApp
    hasVideoElement,          \* initARJS obtained the camera stream
    isMarkerDetected,
    markerGroupVisible,       \* this.markerGroup.visible
    markerGroupMatrix,        \* this.markerGroup.matrix (the pose)
    matrixAutoUpdate,         \* this.markerGroup.matrixAutoUpdate
    videoMeshVisible,         \* this.videoMesh.visible
    videoPaused,              \* this.videoMesh.userData.videoElement.paused
    videoCurrentTime,         \* ... .currentTime, in frames of the clip
    errorLogged,
    errorLog,                 \* console.error lines of the outer catch, in order
    caughtError,              \* exception the outer catch took in the most recent tick
    frameCount,
    \* start-up of the AR.js ARApp
    stage,                    \* what the constructor's waitForARJS / init chain awaits
    attempts,                 \* the local attempts of waitForARJS
    initCalls,                \* how often init() has been called
    statusText,               \* this.statusText.textContent, by its kind
    videoStatus,              \* this.videoStatus.textContent, by its kind
    cameraFailure,            \* the getUserMedia call that was refused, if any
    steps,                    \* the steps of the start-up chain that have completed
    \* AssetLoader
    loadedAssets,             \* Map name -> asset (the load that produced it), 0 absent
    loadingPromises,          \* Map name -> the load whose promise is stored, 0 absent
    loads,                    \* the calls of _loadVideoTextureInternal, in order
    callers,                  \* the calls of loadVideoTexture, in order
    tornDown,                 \* the latest disposeAll with no loadVideoTexture since:
                              \* whether there is one, and the assets it found cached
    \* the detectors of detector.js and the video element they read
    frame,                    \* the picture the video element holds: videoWidth,
                              \* videoHeight and its pixels
    readyState,               \* videoElement.readyState
    canvas,                   \* width and height of each detector's canvas
    detection,                \* what the most recent detect() returned
    canvasCalls,              \* the canvas operations it made, in order
    clustersFound,            \* the pixels of every cluster its floodFill calls built
    \* the overlay of the legacy page, src/app.js
    fullscreenElement,        \* document.fullscreenElement is set
    fullscreenRequested,      \* a requestFullscreen() has not been answered yet
    fullscreenOverlay,        \* the classList of the overlay element
    overlayVideo,             \* the video element: paused, loadedmetadata fired
    playPromises,             \* pending promises of the click handler's video.play()
    hideTimers,               \* armed 500 ms timers
    exited                    \* the page has left fullscreen, and no click since

appVars == <<app, started, rafPending, trace, tickIn, pre, escaped>>
heuristicVars == <<detectorVariant, isTracking, arVideoVisible, arVideoPaused,
                   arVideoCurrentTime, cameraMatrixWorldInverse, arVideoMatrix,
                   debugInfo>>
arjsVars == <<hasVideoElement, isMarkerDetected, markerGroupVisible,
              markerGroupMatrix, matrixAutoUpdate, videoMeshVisible,
              videoPaused, videoCurrentTime, errorLogged, errorLog, caughtError,
              frameCount>>
startupVars == <<stage, attempts, initCalls, statusText, videoStatus, cameraFailure,
                 steps>>
\* the fields animate works on: arjsVars without this.videoElement
arjsTickVars == <<isMarkerDetected, markerGroupVisible, markerGroupMatrix,
                  matrixAutoUpdate, videoMeshVisible, videoPaused,
                  videoCurrentTime, errorLogged, errorLog, caughtError, frameCount>>
loaderVars == <<loadedAssets, loadingPromises, loads, callers, tornDown>>
detectorVars == <<frame, readyState, canvas, detection, canvasCalls, clustersFound>>
overlayVars == <<fullscreenElement, fullscreenRequested, fullscreenOverlay,
                 overlayVideo, playPromises, hideTimers, exited>>
vars == <<appVars, heuristicVars, arjsVars, startupVars, loaderVars, detectorVars,
          overlayVars>>

(***************************************************************************)
(* Bounds.                                                                 *)
(***************************************************************************)
\* ticks allowed between two resets of the frame counter by updateFPS
MaxFrameCount == 1
\* largest number of detections a multi-cluster detect() hands to a tick
MaxDetections == 1

\* const maxAttempts of waitForARJS
maxAttempts == 100

\* calls of loadVideoTexture made on one AssetLoader
MaxCalls == 3

\* length of the looping clip, in frames
VideoLength == 3

(***************************************************************************)
(* JavaScript numbers as far as the pose arithmetic needs them: an integer *)
(* or NaN.  Reading past the end of an array gives undefined, which the    *)
(* arithmetic of calculateModelViewMatrix turns into NaN.                  *)
(***************************************************************************)
Num(n) == [nan |-> FALSE, v |-> n]
NaN == [nan |-> TRUE, v |-> 0]
Neg(x) == IF x.nan THEN NaN ELSE Num(0 - x.v)

\* a JavaScript array value, or undefined
Arr(elems) == [def |-> TRUE, el |-> elems]
Undefined == [def |-> FALSE, el |-> <<>>]
At(a, i) == IF i <= Len(a.el) THEN a.el[i] ELSE NaN

\* a pose is held as its Euler angles and its position in hundredths of a
\* scene unit; the identity matrix has all six zero
Identity == [rot |-> <<Num(0), Num(0), Num(0)>>, pos |-> <<Num(0), Num(0), Num(0)>>]

(***************************************************************************)
(* Sequential steps of a tick.  A step takes the record of the fields and  *)
(* returns it changed; exc # "none" means an exception is propagating.     *)
(***************************************************************************)
Thrown(s) == s.exc # "none"
Call(s, label) == [s EXCEPT !.trace = Append(@, label)]
Throw(s, what) == [s EXCEPT !.exc = what]

(***************************************************************************)
(* Heuristic ARApp, src/src/main.js lines 6-126.                           *)
(***************************************************************************)
\* the fields of the heuristic ARApp as one record, for the steps of a tick
HFields ==
    [isTracking |-> isTracking, visible |-> arVideoVisible,
     paused |-> arVideoPaused, time |-> arVideoCurrentTime,
     pose |-> cameraMatrixWorldInverse,
     videoMatrix |-> arVideoMatrix, debugInfo |-> debugInfo,
     raf |-> rafPending, trace |-> <<>>, exc |-> "none"]

\* calculateModelViewMatrix: rvec[0] on undefined is a TypeError, so is
\* tvec[0]; otherwise the Euler angles are (-r0, -r1, r2) and the position
\* (t0, -t1, -t2) * 0.01, that is t hundredths.  threw says which happened.
calculateModelViewMatrix(rvec, tvec) ==
    IF ~rvec.def \/ ~tvec.def
    THEN [threw |-> TRUE, elements |-> Identity]
    ELSE [threw |-> FALSE,
          elements |->
              [rot |-> <<Neg(At(rvec, 1)), Neg(At(rvec, 2)), At(rvec, 3)>>,
               pos |-> <<At(tvec, 1), Neg(At(tvec, 2)), Neg(At(tvec, 3))>>]]

\* updateCameraPose: the camera takes the matrix, then the plane is shown and
\* takes the camera's world matrix (the inverse).  in.poseThrows is the
\* three.js build lacking Matrix4.getInverse.
updateCameraPose(s, detectionResult, in) ==
    LET s1 == Call(s, "pose")
        mv == calculateModelViewMatrix(detectionResult.rvec, detectionResult.tvec)
    IN  IF mv.threw THEN Throw(s1, "pose")
        ELSE LET s2 == [s1 EXCEPT !.pose = mv.elements]
             IN  IF in.poseThrows THEN Throw(s2, "pose")
                 ELSE [s2 EXCEPT !.visible = TRUE,
                                 !.videoMatrix = [inverseOf |-> mv.elements]]

\* HTMLMediaElement.play() as both loops call it: the paused attribute is
\* false from the call on; "play" is recorded when the video was paused, the
\* one case in which the call takes it from paused to playing
play(s) == IF s.paused THEN [Call(s, "play") EXCEPT !.paused = FALSE] ELSE s

\* mutant of onMarkerFoundH: the flag is not set
onMarkerFoundH_flagNotSet(s, in) ==
    LET s1 == Call(s, "MarkerFound")
    IN  IF in.foundThrow # "none" THEN Throw(s1, "handler")
        ELSE play(s1)

\* onMarkerFound of the heuristic ARApp: flag first, then play()
onMarkerFoundH(s, in) ==
    LET s1 == [Call(s, "MarkerFound") EXCEPT !.isTracking = TRUE]
    IN  IF in.foundThrow # "none" THEN Throw(s1, "handler")
        ELSE play(s1)

\* mutant of onMarkerLostH: the flag is not cleared
onMarkerLostH_flagKept(s, in) ==
    LET s1 == Call(s, "MarkerLost")
    IN  IF in.lostThrow # "none" THEN Throw(s1, "handler")
        ELSE [s1 EXCEPT !.paused = TRUE]

\* onMarkerLost of the heuristic ARApp: flag first, then pause()
onMarkerLostH(s, in) ==
    LET s1 == [Call(s, "MarkerLost") EXCEPT !.isTracking = FALSE]
    IN  IF in.lostThrow # "none" THEN Throw(s1, "handler")
        ELSE [s1 EXCEPT !.paused = TRUE]

\* result && result.found: an array (multi-cluster detector) has no found
Found(result) == result.kind = "object" /\ result.found

\* mutant of detectMarker: onMarkerFound without the test of isTracking
detectMarker_unguarded(s, in) ==
    LET s1 == Call(s, "detect")
        result == in.detect
    IN  IF result.kind = "throw" THEN Throw(s1, "detect")
        ELSE IF Found(result)
        THEN LET s2 == onMarkerFoundH(s1, in)
                 s3 == IF Thrown(s2) THEN s2
                       ELSE updateCameraPose(s2, result, in)
             IN  IF Thrown(s3) THEN s3 ELSE [s3 EXCEPT !.debugInfo = "found"]
        ELSE LET s2 == IF s1.isTracking THEN onMarkerLostH(s1, in) ELSE s1
             IN  IF Thrown(s2) THEN s2 ELSE [s2 EXCEPT !.debugInfo = "notfound"]

\* detectMarker, lines 60-75
detectMarker(s, in) ==
    LET s1 == Call(s, "detect")
        result == in.detect
    IN  IF result.kind = "throw" THEN Throw(s1, "detect")
        ELSE IF Found(result)
        THEN LET s2 == IF ~s1.isTracking THEN onMarkerFoundH(s1, in) ELSE s1
                 s3 == IF Thrown(s2) THEN s2
                       ELSE updateCameraPose(s2, result, in)
             IN  IF Thrown(s3) THEN s3 ELSE [s3 EXCEPT !.debugInfo = "found"]
        ELSE LET s2 == IF s1.isTracking THEN onMarkerLostH(s1, in) ELSE s1
             IN  IF Thrown(s2) THEN s2 ELSE [s2 EXCEPT !.debugInfo = "notfound"]

\* renderer.render(scene, camera)
render(s, in) ==
    IF in.renderThrows THEN Throw(Call(s, "render"), "render")
    ELSE Call(s, "render")

\* mutant of animateH: the next frame is requested at the end of the tick
animateH_rafLast(s, in) ==
    LET s1 == IF in.ready THEN detectMarker(s, in) ELSE s
        s2 == IF Thrown(s1) THEN s1 ELSE render(s1, in)
    IN  IF Thrown(s2) THEN s2 ELSE [Call(s2, "raf") EXCEPT !.raf = TRUE]

\* animate of the heuristic ARApp; no try/catch anywhere in it
animateH(s, in) ==
    LET s1 == [Call(s, "raf") EXCEPT !.raf = TRUE]
        s2 == IF in.ready THEN detectMarker(s1, in) ELSE s1
    IN  IF Thrown(s2) THEN s2 ELSE render(s2, in)

(***************************************************************************)
(* AR.js ARApp, src/src/main.js lines 135-684.                             *)
(***************************************************************************)
\* the fields of the AR.js ARApp as one record, for the steps of a tick
AFields ==
    [detected |-> isMarkerDetected, groupVisible |-> markerGroupVisible,
     matrix |-> markerGroupMatrix, autoUpdate |-> matrixAutoUpdate,
     meshVisible |-> videoMeshVisible, paused |-> videoPaused,
     time |-> videoCurrentTime,
     errorLogged |-> errorLogged, errorLog |-> errorLog,
     caught |-> "none", frameCount |-> frameCount,
     videoStatus |-> videoStatus,
     hasVideo |-> hasVideoElement, raf |-> rafPending, trace |-> <<>>, exc |-> "none"]

\* AssetLoader.playVideo: play() only a paused video; the element's paused
\* attribute is false from the call on (a rejected promise is only logged)
playVideo(s) == IF s.paused THEN play(s) ELSE s

\* mutant of pauseVideo: the body of stopVideo, pause() and currentTime = 0
pauseVideo_seeks(s) == [s EXCEPT !.paused = TRUE, !.time = 0]

\* AssetLoader.pauseVideo: pause() only a playing video; no seek
pauseVideo(s) == IF ~s.paused THEN [s EXCEPT !.paused = TRUE] ELSE s

\* mutant of onMarkerFound: the mesh is shown and playVideo is not called
onMarkerFound_noPlay(s, in) ==
    LET s1 == Call(s, "MarkerFound")
    IN  IF in.foundThrow = "early" THEN Throw(s1, "handler")
        ELSE LET s2 == [s1 EXCEPT !.meshVisible = TRUE]
             IN  IF in.foundThrow = "late" THEN Throw(s2, "handler")
                 ELSE [s2 EXCEPT !.videoStatus = "Playing"]

\* onMarkerFound of the AR.js ARApp.  The status elements come from the page:
\* "early" is updateMarkerStatus throwing, "late" updateVideoStatus.
onMarkerFound(s, in) ==
    LET s1 == Call(s, "MarkerFound")
    IN  IF in.foundThrow = "early" THEN Throw(s1, "handler")
        ELSE LET s2 == playVideo([s1 EXCEPT !.meshVisible = TRUE])
             IN  IF in.foundThrow = "late" THEN Throw(s2, "handler")
                 ELSE [s2 EXCEPT !.videoStatus = "Playing"]

\* onMarkerLost of the AR.js ARApp
onMarkerLost(s, in) ==
    LET s1 == Call(s, "MarkerLost")
    IN  IF in.lostThrow = "early" THEN Throw(s1, "handler")
        ELSE LET s2 == pauseVideo([s1 EXCEPT !.meshVisible = FALSE])
             IN  IF in.lostThrow = "late" THEN Throw(s2, "handler")
                 ELSE [s2 EXCEPT !.videoStatus = "Paused"]

\* what getTransMatSquare did: threw, returned false, or returned true having
\* filled the 16 floats (a matrix, or values among which some are NaN)
PoseSuccess(p) == p \notin {"throw", "fail"}

\* the inner try block, lines 545-575
tryPose(s, in) ==
    LET s1 == Call(s, "pose")
    IN  IF in.pose = "throw" THEN Throw(s1, "pose")
        ELSE IF PoseSuccess(in.pose)
        THEN LET s2 == [s1 EXCEPT !.matrix = in.pose, !.autoUpdate = FALSE,
                                  !.groupVisible = TRUE]
             IN  IF ~s2.detected
                 THEN onMarkerFound([s2 EXCEPT !.detected = TRUE], in)
                 ELSE s2
        ELSE IF s1.detected
             THEN onMarkerLost([s1 EXCEPT !.groupVisible = FALSE,
                                          !.detected = FALSE], in)
             ELSE s1

\* mutant of markerBranch: the catch hides the group and leaves the flag set
markerBranch_flagKept(s, in) ==
    LET t == tryPose(s, in)
    IN  IF ~Thrown(t) THEN t
        ELSE LET c == Call([t EXCEPT !.exc = "none"], "innerlog")
             IN  IF c.detected
                 THEN onMarkerLost([c EXCEPT !.groupVisible = FALSE], in)
                 ELSE c

\* the inner try with its catch, lines 545-584
markerBranch(s, in) ==
    LET t == tryPose(s, in)
    IN  IF ~Thrown(t) THEN t
        ELSE LET c == Call([t EXCEPT !.exc = "none"], "innerlog")
             IN  IF c.detected
                 THEN onMarkerLost([c EXCEPT !.groupVisible = FALSE,
                                             !.detected = FALSE], in)
                 ELSE c

\* the branch for no markers, lines 585-595
noMarkerBranch(s, in) ==
    IF s.groupVisible
    THEN LET s1 == [s EXCEPT !.groupVisible = FALSE]
         IN  IF s1.detected
             THEN onMarkerLost([s1 EXCEPT !.detected = FALSE], in)
             ELSE s1
    ELSE s

\* the outer try block, lines 524-611
tickBody(s, in) ==
    LET s1 == IF s.hasVideo /\ in.ready
              THEN LET d == Call(s, "detect")
                   IN  IF in.detect.kind = "throw" THEN Throw(d, "detect")
                       ELSE IF in.detect.n > 0 THEN markerBranch(d, in)
                       ELSE noMarkerBranch(d, in)
              ELSE s
    IN  IF Thrown(s1) THEN s1 ELSE render(s1, in)

\* mutant of outerCatch: the flag is set and not tested
outerCatch_logsEach(s) ==
    LET c == [s EXCEPT !.exc = "none", !.caught = s.exc]
    IN  [Call(c, "log") EXCEPT !.errorLog = Append(@, s.exc),
                               !.errorLogged = TRUE]

\* the outer catch, lines 612-617
outerCatch(s) ==
    LET c == [s EXCEPT !.exc = "none", !.caught = s.exc]
    IN  IF ~c.errorLogged
        THEN [Call(c, "log") EXCEPT !.errorLog = Append(@, s.exc),
                                    !.errorLogged = TRUE]
        ELSE c

\* updateFPS: in.fpsElapsed is a second having passed since the last reset
updateFPS(s, in) ==
    LET s1 == [Call(s, "updateFPS") EXCEPT !.frameCount = @ + 1]
    IN  IF in.fpsElapsed THEN [s1 EXCEPT !.frameCount = 0] ELSE s1

\* animate of the AR.js ARApp
animate(s, in) ==
    LET s1 == [Call(s, "raf") EXCEPT !.raf = TRUE]
        s2 == tickBody(s1, in)
        s3 == IF Thrown(s2) THEN outerCatch(s2) ELSE s2
    IN  updateFPS(s3, in)

(***************************************************************************)
(* AssetLoader, src/unnamed/part_002 lines 9-200.  A load is one call of   *)
(* _loadVideoTextureInternal, known by its position in loads; the asset it *)
(* resolves with, the object { videoElement, texture } made by its         *)
(* onCanPlay, is known by the same number.  An event handler runs together *)
(* with the promise reactions it makes ready: the await of the call that   *)
(* started the load and the calls that were handed its promise.            *)
(***************************************************************************)
\* asset identifiers passed to the loader
Names == {"primary", "fallback"}
\* url and videoConfig passed along
Requests == {[url |-> "a.mp4", autoplay |-> FALSE], [url |-> "b.mp4", autoplay |-> TRUE]}

\* Map.prototype.has, .set, .delete
has(map, name) == map[name] # 0
set(map, name, value) == [map EXCEPT ![name] = value]
delete(map, name) == [map EXCEPT ![name] = 0]

\* HTMLMediaElement.played: a TimeRanges object, empty until something played
played(video) ==
    [type |-> "object", class |-> "TimeRanges",
     length |-> IF video.hasPlayed THEN 1 ELSE 0]
\* ToBoolean of ECMAScript: an object is true
ToBoolean(value) == IF value.type = "object" THEN TRUE ELSE value.boolean

\* the state of the loader as one record, for the steps of a handler
LFields == [loadedAssets |-> loadedAssets, loadingPromises |-> loadingPromises,
            loads |-> loads, callers |-> callers]

\* the call that started load l is still awaiting it
OwnerPending(cs, l) ==
    \E c \in DOMAIN cs : cs[c].via = "load" /\ cs[c].load = l /\ cs[c].settled = "pending"

\* what the calls so far say a new call of this name should find: the load
\* an unsettled earlier call started, and the asset an earlier call resolved
\* with that no dispose of the name was called after (0 when there is none)
During(cs, name) ==
    LET owners == {c \in DOMAIN cs : cs[c].name = name /\ cs[c].via = "load"
                                     /\ cs[c].settled = "pending"}
    IN  IF owners = {} THEN 0 ELSE cs[CHOOSE c \in owners : TRUE].load

Cached(cs, name) ==
    LET holders == {c \in DOMAIN cs : cs[c].name = name /\ cs[c].settled = "resolved"
                                      /\ cs[c].current}
    IN  IF holders = {} THEN 0 ELSE cs[CHOOSE c \in holders : TRUE].value

\* a call of loadVideoTexture as the list of calls keeps it
Caller(f, name, request, via, load, settled) ==
    [name |-> name, url |-> request.url, via |-> via, load |-> load,
     settled |-> settled,
     value |-> IF settled = "resolved" THEN load ELSE 0,
     error |-> "none", current |-> settled = "resolved",
     during |-> During(f.callers, name), cached |-> Cached(f.callers, name)]

\* _loadVideoTextureInternal up to the return of the promise: the video
\* element with its two listeners, src set, load() called, the timer armed
_loadVideoTextureInternal(f, name, request) ==
    [f EXCEPT !.loads = Append(@,
        [name |-> name, url |-> request.url, autoplay |-> request.autoplay,
         state |-> "pending", error |-> "none", listening |-> TRUE,
         timer |-> TRUE, hasPlayed |-> FALSE, paused |-> TRUE, released |-> FALSE])]

\* mutant of loadVideoTexture: the pending promise is not looked up
loadVideoTexture_noPendingLookup(f, name, request) ==
    IF has(f.loadedAssets, name)
    THEN [f EXCEPT !.callers = Append(@,
             Caller(f, name, request, "cache", f.loadedAssets[name], "resolved"))]
    ELSE LET f1 == _loadVideoTextureInternal(f, name, request)
             l == Len(f1.loads)
         IN  [f1 EXCEPT !.loadingPromises = set(@, name, l),
                        !.callers = Append(@, Caller(f, name, request, "load", l, "pending"))]

\* mutant of loadVideoTexture: the cache is not looked up
loadVideoTexture_noCacheLookup(f, name, request) ==
    IF has(f.loadingPromises, name)
    THEN [f EXCEPT !.callers = Append(@,
             Caller(f, name, request, "pending", f.loadingPromises[name], "pending"))]
    ELSE LET f1 == _loadVideoTextureInternal(f, name, request)
             l == Len(f1.loads)
         IN  [f1 EXCEPT !.loadingPromises = set(@, name, l),
                        !.callers = Append(@, Caller(f, name, request, "load", l, "pending"))]

\* loadVideoTexture up to its await, lines 23-38
loadVideoTexture(f, name, request) ==
    IF has(f.loadedAssets, name)
    THEN [f EXCEPT !.callers = Append(@,
             Caller(f, name, request, "cache", f.loadedAssets[name], "resolved"))]
    ELSE IF has(f.loadingPromises, name)
    THEN [f EXCEPT !.callers = Append(@,
             Caller(f, name, request, "pending", f.loadingPromises[name], "pending"))]
    ELSE LET f1 == _loadVideoTextureInternal(f, name, request)
             l == Len(f1.loads)
         IN  [f1 EXCEPT !.loadingPromises = set(@, name, l),
                        !.callers = Append(@, Caller(f, name, request, "load", l, "pending"))]

\* mutant of settle: the promise is deleted after the asset is stored, in
\* the try block, and there is no finally
settle_noFinally(f, l, state, error) ==
    IF f.loads[l].state # "pending" THEN f
    ELSE LET name == f.loads[l].name
             awaited == OwnerPending(f.callers, l)
         IN  [f EXCEPT
                !.loads[l].state = state,
                !.loads[l].error = error,
                !.loadedAssets = IF awaited /\ state = "resolved"
                                 THEN set(@, name, l) ELSE @,
                !.loadingPromises = IF awaited /\ state = "resolved"
                                    THEN delete(@, name) ELSE @,
                !.callers = [c \in DOMAIN @ |->
                    IF @[c].load = l /\ @[c].settled = "pending"
                    THEN [@[c] EXCEPT !.settled = state,
                                      !.value = IF state = "resolved" THEN l ELSE 0,
                                      !.error = error,
                                      !.current = state = "resolved"]
                    ELSE @[c]]]

\* mutant of settle: only the call that started the load learns of it, the
\* calls that were handed the promise stay pending
settle_ownerOnly(f, l, state, error) ==
    IF f.loads[l].state # "pending" THEN f
    ELSE LET name == f.loads[l].name
             awaited == OwnerPending(f.callers, l)
         IN  [f EXCEPT
                !.loads[l].state = state,
                !.loads[l].error = error,
                !.loadedAssets = IF awaited /\ state = "resolved"
                                 THEN set(@, name, l) ELSE @,
                !.loadingPromises = IF awaited THEN delete(@, name) ELSE @,
                !.callers = [c \in DOMAIN @ |->
                    IF @[c].load = l /\ @[c].settled = "pending" /\ @[c].via = "load"
                    THEN [@[c] EXCEPT !.settled = state,
                                      !.value = IF state = "resolved" THEN l ELSE 0,
                                      !.error = error,
                                      !.current = state = "resolved"]
                    ELSE @[c]]]

\* resolve / reject of the promise of load l, which do nothing to a settled
\* promise, with the reactions: the calls handed the promise settle as it
\* does, and the call that started the load goes on after its await (lines
\* 38-43), storing the asset when there is one and deleting the promise
settle(f, l, state, error) ==
    IF f.loads[l].state # "pending" THEN f
    ELSE LET name == f.loads[l].name
             awaited == OwnerPending(f.callers, l)
         IN  [f EXCEPT
                !.loads[l].state = state,
                !.loads[l].error = error,
                !.loadedAssets = IF awaited /\ state = "resolved"
                                 THEN set(@, name, l) ELSE @,
                !.loadingPromises = IF awaited THEN delete(@, name) ELSE @,
                !.callers = [c \in DOMAIN @ |->
                    IF @[c].load = l /\ @[c].settled = "pending"
                    THEN [@[c] EXCEPT !.settled = state,
                                      !.value = IF state = "resolved" THEN l ELSE 0,
                                      !.error = error,
                                      !.current = state = "resolved"]
                    ELSE @[c]]]

\* cleanup: both listeners are removed
cleanup(f, l) == [f EXCEPT !.loads[l].listening = FALSE]

\* onCanPlay, lines 66-72
onCanPlay(f, l) ==
    LET f1 == cleanup(f, l)
        f2 == IF f1.loads[l].autoplay
              THEN [f1 EXCEPT !.loads[l].hasPlayed = TRUE, !.loads[l].paused = FALSE]
              ELSE f1
    IN  settle(f2, l, "resolved", "none")

\* onError, lines 74-77
onError(f, l) == settle(cleanup(f, l), l, "rejected", "error")

\* the callback of the 30 s timer, lines 92-97
onTimeout(f, l) ==
    LET f1 == [f EXCEPT !.loads[l].timer = FALSE]
    IN  IF ~has(f1.loadedAssets, f1.loads[l].name) /\ ~ToBoolean(played(f1.loads[l]))
        THEN settle(cleanup(f1, l), l, "rejected", "timeout")
        ELSE f1

\* dispose(name), lines 180-192; the calls that resolved with the name's
\* asset no longer hold a current one
dispose(f, name) ==
    LET asset == f.loadedAssets[name]
        f1 == IF asset # 0
              THEN [f EXCEPT !.loads[asset].paused = TRUE,
                             !.loads[asset].released = TRUE,
                             !.loadedAssets = delete(@, name)]
              ELSE f
    IN  [f1 EXCEPT !.callers = [c \in DOMAIN @ |->
            IF @[c].name = name THEN [@[c] EXCEPT !.current = FALSE] ELSE @[c]]]

\* disposeAll, lines 195-199: dispose of every key
RECURSIVE disposeEach(_, _)
disposeEach(f, names) ==
    IF names = {} THEN f
    ELSE LET name == CHOOSE n \in names : TRUE
         IN  disposeEach(dispose(f, name), names \ {name})

disposeAll(f) == disposeEach(f, {n \in Names : has(f.loadedAssets, n)})

(***************************************************************************)
(* What the environment can do in one tick.                                *)
(***************************************************************************)
NoResult == [kind |-> "none", found |-> FALSE, rvec |-> Undefined,
             tvec |-> Undefined, n |-> 0]
\* detect() or arController.process() threw
ThrowResult == [NoResult EXCEPT !.kind = "throw"]
\* the single-marker detector, detector.js lines 15-50
NotFoundResult == [NoResult EXCEPT !.kind = "object"]
FoundResult == [kind |-> "object", found |-> TRUE,
                rvec |-> Arr(<<Num(0), Num(0), Num(0)>>),
                tvec |-> Arr(<<Num(0), Num(0), Num(1)>>), n |-> 1]
\* the multi-cluster detector, detector.js lines 151-161: an array
ArrayResult(n) == [NoResult EXCEPT !.kind = "array", !.n = n]
\* arController.getMarkerNum()
MarkersResult(n) == [NoResult EXCEPT !.kind = "markers", !.n = n]

HDetectResults(variant) ==
    IF variant = "single" THEN {ThrowResult, NotFoundResult, FoundResult}
    ELSE {ThrowResult} \cup {ArrayResult(n) : n \in 0..MaxDetections}

ADetectResults == {ThrowResult} \cup {MarkersResult(n) : n \in 0..MaxDetections}

PoseOutcomes == {"throw", "fail", "M1", "NaNs"}

AllInputs(detects, poses, poseThrows, throwKinds) ==
    [ready : BOOLEAN, detect : detects, pose : poses, poseThrows : poseThrows,
     foundThrow : throwKinds, lostThrow : throwKinds, renderThrows : BOOLEAN,
     fpsElapsed : BOOLEAN]

\* fields no tick with this input can look at are at their defaults (what
\* remains depends on the state and is left to Relevant below)
Canonical(in) ==
    /\ in.detect.kind \in {"none", "throw"} =>
           in.pose = "fail" /\ ~in.poseThrows
           /\ in.foundThrow = "none" /\ in.lostThrow = "none"
    /\ in.detect.kind = "throw" => in.ready /\ ~in.renderThrows
    /\ ~in.ready => in.detect = NoResult
    /\ in.detect.kind = "markers" /\ in.detect.n = 0 => in.pose = "fail"
    /\ in.detect.kind = "markers" /\ ~PoseSuccess(in.pose) => in.foundThrow = "none"
    /\ in.detect.kind \in {"object", "array"} /\ ~Found(in.detect) =>
           ~in.poseThrows /\ in.foundThrow = "none"
    /\ Found(in.detect) => in.lostThrow = "none"

HInputs(variant) ==
    {in \in AllInputs(HDetectResults(variant) \cup {NoResult}, {"fail"},
                      BOOLEAN, {"none", "late"}) :
        Canonical(in) /\ ~in.fpsElapsed}

AInputs ==
    {in \in AllInputs(ADetectResults \cup {NoResult}, PoseOutcomes, {FALSE},
                      {"none", "early", "late"}) : Canonical(in)}

\* Of the inputs that differ only in a field the tick never looked at, the
\* one with that field at its default stands for all: r is the tick's result.
Called(r, label) == \E i \in DOMAIN r.trace : r.trace[i] = label

Relevant(in, r) ==
    /\ Called(r, "detect") <=> in.detect # NoResult
    /\ ~Called(r, "pose") => in.pose = "fail" /\ ~in.poseThrows
    /\ ~Called(r, "MarkerFound") => in.foundThrow = "none"
    /\ ~Called(r, "MarkerLost") => in.lostThrow = "none"
    /\ ~Called(r, "render") => ~in.renderThrows
    /\ ~Called(r, "updateFPS") => ~in.fpsElapsed

NoInput == [ready |-> FALSE, detect |-> NoResult, pose |-> "fail",
            poseThrows |-> FALSE, foundThrow |-> "none", lostThrow |-> "none",
            renderThrows |-> FALSE, fpsElapsed |-> FALSE]

(***************************************************************************)
(* The detectors, src/src/detector.js.  A picture is its width, its height *)
(* and its pixels in row order, numbered from 0 as the pixel loops number  *)
(* them (i / 4); a pixel is its red, green and blue bytes.  A quotient of  *)
(* two counts is kept as the pair, so nothing is rounded.                  *)
(***************************************************************************)
\* videoElement.HAVE_ENOUGH_DATA
HAVE_ENOUGH_DATA == 4
\* the second argument of findRedMarkers in detect
maxMarkers == 4
\* the size a cluster has to exceed to be kept
minClusterSize == 20

\* the colour test of both detectors
isRed(px) == px.r > 200 /\ px.g < 100 /\ px.b < 100

\* a / b of two counts
Quotient(a, b) == [num |-> a, den |-> b]
\* redRatio > 0.01: 0 / 0 is NaN and no comparison with NaN is true
MoreThanOnePercent(q) ==
    IF q.den = 0 THEN q.num > 0 ELSE q.num * 100 > q.den

\* updateCanvasSize: the canvas takes the size of the video
updateCanvasSize(video) == [width |-> video.width, height |-> video.height]

\* context.getImageData(0, 0, canvas.width, canvas.height) after drawImage of
\* the video over the whole canvas; a width or height of 0 is an
\* IndexSizeError
getImageData(cv, video) ==
    IF cv.width = 0 \/ cv.height = 0
    THEN [threw |-> TRUE, width |-> cv.width, height |-> cv.height, data |-> <<>>]
    ELSE [threw |-> FALSE, width |-> cv.width, height |-> cv.height,
          data |-> video.data]

\* what detect hands back to the detector object's client
Returned(cv, calls, result, clusters) ==
    [canvas |-> cv, calls |-> calls, result |-> result, clusters |-> clusters]

CanvasCalls == <<"updateCanvasSize", "drawImage", "getImageData">>

\* mutant of detectSingle: found from 1% on
detectSingle_fromOnePercent(video, ready, cv) ==
    IF ready # HAVE_ENOUGH_DATA THEN Returned(cv, <<>>, NotFoundResult, <<>>)
    ELSE LET c1 == updateCanvasSize(video)
             imageData == getImageData(c1, video)
         IN  IF imageData.threw THEN Returned(c1, CanvasCalls, ThrowResult, <<>>)
             ELSE LET redCount == Cardinality({i \in DOMAIN imageData.data :
                                                  isRed(imageData.data[i])})
                      totalPixels == c1.width * c1.height
                  IN  Returned(c1, CanvasCalls,
                               IF redCount * 100 >= totalPixels
                               THEN FoundResult ELSE NotFoundResult, <<>>)

\* mutant of detectSingle: the readyState is not looked at
detectSingle_unguarded(video, ready, cv) ==
    LET c1 == updateCanvasSize(video)
        imageData == getImageData(c1, video)
    IN  IF imageData.threw THEN Returned(c1, CanvasCalls, ThrowResult, <<>>)
        ELSE LET redCount == Cardinality({i \in DOMAIN imageData.data :
                                             isRed(imageData.data[i])})
                 totalPixels == c1.width * c1.height
             IN  Returned(c1, CanvasCalls,
                          IF MoreThanOnePercent(Quotient(redCount, totalPixels))
                          THEN FoundResult ELSE NotFoundResult, <<>>)

\* detect of the single-marker detector, lines 15-49
detectSingle(video, ready, cv) ==
    IF ready # HAVE_ENOUGH_DATA THEN Returned(cv, <<>>, NotFoundResult, <<>>)
    ELSE LET c1 == updateCanvasSize(video)
             imageData == getImageData(c1, video)
         IN  IF imageData.threw THEN Returned(c1, CanvasCalls, ThrowResult, <<>>)
             ELSE LET redCount == Cardinality({i \in DOMAIN imageData.data :
                                                  isRed(imageData.data[i])})
                      totalPixels == c1.width * c1.height
                  IN  Returned(c1, CanvasCalls,
                               IF MoreThanOnePercent(Quotient(redCount, totalPixels))
                               THEN FoundResult ELSE NotFoundResult, <<>>)

\* mutant of neighbors: top and bottom only
neighbors_vertical(idx, width) == <<idx - width, idx + width>>

\* the four indices floodFill looks at around idx: left, right, top, bottom
neighbors(idx, width) == <<idx - 1, idx + 1, idx - width, idx + width>>

\* mutant of drain: a dequeued index is taken whether visited or not
RECURSIVE drain_noRecheck(_, _, _, _)
drain_noRecheck(q, width, height, redMap) ==
    IF q.queue = <<>> THEN q
    ELSE LET idx == Head(q.queue)
             rest == Tail(q.queue)
             visited == q.visited \cup {idx}
             pushed == SelectSeq(neighbors(idx, width),
                           LAMBDA nIdx : /\ nIdx >= 0
                                         /\ nIdx < width * height
                                         /\ redMap[nIdx] = 1
                                         /\ nIdx \notin visited)
         IN  drain_noRecheck([queue |-> rest \o pushed,
                              pixels |-> Append(q.pixels, idx),
                              sumX |-> q.sumX + (idx % width),
                              sumY |-> q.sumY + (idx \div width),
                              visited |-> visited,
                              dequeued |-> q.dequeued + 1],
                             width, height, redMap)

\* the while loop of floodFill over its queue; q holds the queue, the pixels
\* taken so far, the two sums, the visited marks, and how many times the
\* loop has run (queue.shift())
RECURSIVE drain(_, _, _, _)
drain(q, width, height, redMap) ==
    IF q.queue = <<>> THEN q
    ELSE LET idx == Head(q.queue)
             rest == Tail(q.queue)
         IN  IF idx \in q.visited
             THEN drain([q EXCEPT !.queue = rest, !.dequeued = @ + 1],
                        width, height, redMap)
             ELSE LET visited == q.visited \cup {idx}
                      pushed == SelectSeq(neighbors(idx, width),
                                    LAMBDA nIdx : /\ nIdx >= 0
                                                  /\ nIdx < width * height
                                                  /\ redMap[nIdx] = 1
                                                  /\ nIdx \notin visited)
                  IN  drain([queue |-> rest \o pushed,
                             pixels |-> Append(q.pixels, idx),
                             sumX |-> q.sumX + (idx % width),
                             sumY |-> q.sumY + (idx \div width),
                             visited |-> visited,
                             dequeued |-> q.dequeued + 1],
                            width, height, redMap)

\* mutant of Cluster: the sums are not divided by the number of pixels
Cluster_sums(q) ==
    [pixels |-> q.pixels,
     centerX |-> Quotient(q.sumX, 1),
     centerY |-> Quotient(q.sumY, 1),
     visited |-> q.visited, dequeued |-> q.dequeued]

\* what floodFill returns, with the visited marks it leaves behind
Cluster(q) ==
    [pixels |-> q.pixels,
     centerX |-> Quotient(q.sumX, Len(q.pixels)),
     centerY |-> Quotient(q.sumY, Len(q.pixels)),
     visited |-> q.visited, dequeued |-> q.dequeued]

\* floodFill, lines 110-147
floodFill(startIdx, width, height, redMap, visited) ==
    Cluster(drain([queue |-> <<startIdx>>, pixels |-> <<>>, sumX |-> 0, sumY |-> 0,
                   visited |-> visited, dequeued |-> 0], width, height, redMap))

\* the indices from lo to hi that pass the test of line 89
Unvisited(lo, hi, redMap, visited) ==
    {i \in lo..hi : redMap[i] = 1 /\ i \notin visited}

\* mutant of scan: a cluster of minClusterSize pixels is kept too
RECURSIVE scan_atLeast(_, _, _, _, _, _)
scan_atLeast(lo, hi, width, height, redMap, visited) ==
    IF Unvisited(lo, hi, redMap, visited) = {}
    THEN [clusters |-> <<>>, found |-> <<>>, visited |-> visited]
    ELSE IF lo = hi
    THEN LET cluster == floodFill(lo, width, height, redMap, visited)
         IN  [clusters |-> IF Len(cluster.pixels) >= minClusterSize
                           THEN <<cluster>> ELSE <<>>,
              found |-> <<cluster.pixels>>,
              visited |-> cluster.visited]
    ELSE LET mid == (lo + hi) \div 2
             first == scan_atLeast(lo, mid, width, height, redMap, visited)
             rest == scan_atLeast(mid + 1, hi, width, height, redMap, first.visited)
         IN  [clusters |-> first.clusters \o rest.clusters,
              found |-> first.found \o rest.found,
              visited |-> rest.visited]

\* the loop over idx of findRedMarkers, lines 88-95, for idx from lo to hi,
\* as the loop over the first half of the indices followed by the loop over
\* the second; with one index it is the body of the loop.  clusters is what
\* it pushes, in order; found keeps the pixels of every cluster built, kept
\* or not; visited is the marks it leaves
RECURSIVE scan(_, _, _, _, _, _)
scan(lo, hi, width, height, redMap, visited) ==
    IF Unvisited(lo, hi, redMap, visited) = {}
    THEN [clusters |-> <<>>, found |-> <<>>, visited |-> visited]
    ELSE IF lo = hi
    THEN LET cluster == floodFill(lo, width, height, redMap, visited)
         IN  [clusters |-> IF Len(cluster.pixels) > minClusterSize
                           THEN <<cluster>> ELSE <<>>,
              found |-> <<cluster.pixels>>,
              visited |-> cluster.visited]
    ELSE LET mid == (lo + hi) \div 2
             first == scan(lo, mid, width, height, redMap, visited)
             rest == scan(mid + 1, hi, width, height, redMap, first.visited)
         IN  [clusters |-> first.clusters \o rest.clusters,
              found |-> first.found \o rest.found,
              visited |-> rest.visited]

\* clusters.sort((a, b) => b.pixels.length - a.pixels.length): the sort is
\* stable, so a cluster goes behind those at least as large as it
RECURSIVE insertCluster(_, _)
insertCluster(sorted, c) ==
    IF sorted = <<>> THEN <<c>>
    ELSE IF Len(Head(sorted).pixels) - Len(c.pixels) >= 0
    THEN <<Head(sorted)>> \o insertCluster(Tail(sorted), c)
    ELSE <<c>> \o sorted

RECURSIVE sort(_)
sort(clusters) ==
    IF clusters = <<>> THEN <<>>
    ELSE insertCluster(sort(SubSeq(clusters, 1, Len(clusters) - 1)),
                       clusters[Len(clusters)])

\* clusters.slice(0, n)
slice(clusters, n) ==
    SubSeq(clusters, 1, IF Len(clusters) < n THEN Len(clusters) ELSE n)

\* the object made of a cluster, lines 99-106
Marker(cluster) ==
    [x |-> cluster.centerX, y |-> cluster.centerY,
     size |-> Len(cluster.pixels), pixelCount |-> Len(cluster.pixels),
     rvec |-> Arr(<<Num(0), Num(0), Num(0)>>),
     tvec |-> Arr(<<Num(0), Num(0), Num(1)>>)]

\* the array detect of the multi-cluster detector returns
MarkerArray(markers) ==
    [kind |-> "array", found |-> FALSE, rvec |-> Undefined, tvec |-> Undefined,
     n |-> Len(markers), markers |-> markers]

\* mutant of findRedMarkers: the clusters are not sorted before the slice
findRedMarkers_unsorted(imageData, max) ==
    LET width == imageData.width
        height == imageData.height
        redMap == [idx \in 0..(width * height - 1) |->
                      IF isRed(imageData.data[idx]) THEN 1 ELSE 0]
        all == scan(0, width * height - 1, width, height, redMap, {})
        top == slice(all.clusters, max)
    IN  [markers |-> [i \in DOMAIN top |-> Marker(top[i])], found |-> all.found]

\* findRedMarkers, lines 67-107
findRedMarkers(imageData, max) ==
    LET width == imageData.width
        height == imageData.height
        redMap == [idx \in 0..(width * height - 1) |->
                      IF isRed(imageData.data[idx]) THEN 1 ELSE 0]
        all == scan(0, width * height - 1, width, height, redMap, {})
        top == slice(sort(all.clusters), max)
    IN  [markers |-> [i \in DOMAIN top |-> Marker(top[i])], found |-> all.found]

\* detect of the multi-cluster detector, lines 151-161
detectMulti(video, ready, cv) ==
    IF ready # HAVE_ENOUGH_DATA THEN Returned(cv, <<>>, MarkerArray(<<>>), <<>>)
    ELSE LET c1 == updateCanvasSize(video)
             imageData == getImageData(c1, video)
         IN  IF imageData.threw THEN Returned(c1, CanvasCalls, ThrowResult, <<>>)
             ELSE LET m == findRedMarkers(imageData, maxMarkers)
                  IN  Returned(c1, CanvasCalls, MarkerArray(m.markers), m.found)


(***************************************************************************)
(* The state machine.                                                      *)
(***************************************************************************)
\* the fields as the constructors leave them
Constructed ==
    /\ started = FALSE
    /\ rafPending = FALSE
    /\ trace = <<>>
    /\ tickIn = NoInput
    /\ pre = [trace |-> <<>>]
    /\ escaped = "none"
    /\ detectorVariant = "single"
    /\ isTracking = FALSE
    /\ arVideoVisible = FALSE
    /\ arVideoPaused = TRUE
    /\ arVideoCurrentTime = 0
    /\ cameraMatrixWorldInverse = Identity
    /\ arVideoMatrix = [inverseOf |-> Identity]
    /\ debugInfo = ""
    /\ hasVideoElement = FALSE
    /\ isMarkerDetected = FALSE
    /\ markerGroupVisible = TRUE
    /\ markerGroupMatrix = "identity"
    /\ matrixAutoUpdate = TRUE
    /\ videoMeshVisible = FALSE
    /\ videoPaused = TRUE
    /\ videoCurrentTime = 0
    /\ errorLogged = FALSE
    /\ errorLog = <<>>
    /\ caughtError = "none"
    /\ frameCount = 0
    /\ stage = "waitForARJS"
    /\ attempts = 0
    /\ initCalls = 0
    /\ statusText = ""
    /\ videoStatus = ""
    /\ cameraFailure = "none"
    /\ steps = <<>>
    /\ loadedAssets = [n \in Names |-> 0]
    /\ loadingPromises = [n \in Names |-> 0]
    /\ loads = <<>>
    /\ callers = <<>>
    /\ tornDown = [done |-> FALSE, assets |-> {}]

\* a canvas as document.createElement('canvas') makes it
NewCanvas == [width |-> 300, height |-> 150]

\* a picture of width x height pixels, those numbered in red marker-coloured
Red == [r |-> 255, g |-> 0, b |-> 0]
Black == [r |-> 0, g |-> 0, b |-> 0]
Paint(width, height, red) ==
    [width |-> width, height |-> height,
     data |-> [idx \in 0..(width * height - 1) |->
                  IF idx \in red THEN Red ELSE Black]]

\* the video element before any picture has arrived, no detect() called
\* the legacy page as loaded: not in fullscreen, the overlay shown, the
\* video element just made by initVideo
NoOverlay ==
    /\ fullscreenElement = FALSE
    /\ fullscreenRequested = FALSE
    /\ fullscreenOverlay = {}
    /\ overlayVideo = [paused |-> TRUE, loadedmetadata |-> FALSE]
    /\ playPromises = 0
    /\ hideTimers = 0
    /\ exited = FALSE

NoVideo ==
    /\ frame = Paint(0, 0, {})
    /\ readyState = 0
    /\ canvas = [single |-> NewCanvas, multi |-> NewCanvas]
    /\ detection = NoResult
    /\ canvasCalls = <<>>
    /\ clustersFound = <<>>

Init == app \in {"heuristic", "arjs"} /\ Constructed /\ NoVideo /\ NoOverlay

\* the fields of the heuristic ARApp after a tick that began in s0
HTick(s0, in, fromInit) ==
    \E r \in {animateH(s0, in)} :
        /\ Relevant(in, r)
        /\ isTracking' = r.isTracking
        /\ arVideoVisible' = r.visible
        /\ arVideoPaused' = r.paused
        /\ arVideoCurrentTime' = r.time
        /\ cameraMatrixWorldInverse' = r.pose
        /\ arVideoMatrix' = r.videoMatrix
        /\ debugInfo' = r.debugInfo
        /\ rafPending' = r.raf
        /\ trace' = r.trace
        /\ tickIn' = in
        /\ pre' = s0
        /\ escaped' = IF fromInit THEN "none" ELSE r.exc

\* init() of the heuristic ARApp has the camera, a detector and the plane,
\* and makes the first call of animate inside its try block
initH ==
    /\ app = "heuristic" /\ ~started
    /\ \E variant \in {"single", "multi"} :
        /\ detectorVariant' = variant
        /\ \E in \in HInputs(variant) : HTick(HFields, in, TRUE)
    /\ started' = TRUE
    /\ UNCHANGED <<app, arjsVars, startupVars, loaderVars, detectorVars,
                   overlayVars>>

\* the browser runs the queued callback () => this.animate()
animationFrameH ==
    /\ app = "heuristic" /\ started /\ rafPending
    /\ \E in \in HInputs(detectorVariant) :
        HTick([HFields EXCEPT !.raf = FALSE], in, FALSE)
    /\ UNCHANGED <<app, started, detectorVariant, arjsVars, startupVars, loaderVars, detectorVars,
                   overlayVars>>

\* the fields of the AR.js ARApp after a tick that began in s0
ATick(s0, in, fromInit) ==
    \E r \in {animate(s0, in)} :
        /\ Relevant(in, r)
        /\ s0.hasVideo \/ ~in.ready
        /\ s0.frameCount < MaxFrameCount \/ in.fpsElapsed
        /\ hasVideoElement' = r.hasVideo
        /\ isMarkerDetected' = r.detected
        /\ markerGroupVisible' = r.groupVisible
        /\ markerGroupMatrix' = r.matrix
        /\ matrixAutoUpdate' = r.autoUpdate
        /\ videoMeshVisible' = r.meshVisible
        /\ videoPaused' = r.paused
        /\ videoCurrentTime' = r.time
        /\ errorLogged' = r.errorLogged
        /\ errorLog' = r.errorLog
        /\ caughtError' = r.caught
        /\ frameCount' = r.frameCount
        /\ videoStatus' = r.videoStatus
        /\ rafPending' = r.raf
        /\ trace' = r.trace
        /\ tickIn' = in
        /\ pre' = s0
        /\ escaped' = IF fromInit THEN "none" ELSE r.exc

\* the catch block of init(), lines 236-240
initCatch ==
    /\ statusText' = "Error"
    /\ stage' = "initFailed"

\* mutant of waitForARJS: the loop runs while attempts <= maxAttempts
waitForARJS_oneMore ==
    /\ app = "arjs" /\ stage = "waitForARJS" /\ attempts <= maxAttempts
    /\ \E loaded \in BOOLEAN, scene \in BOOLEAN :
        IF loaded
        THEN /\ initCalls' = initCalls + 1
             /\ IF scene
                THEN /\ statusText' = "Initializing"
                     /\ stage' = "checkCameraAccess"
                     /\ steps' = <<"waitForARJS", "initThreeJS">>
                ELSE /\ initCatch
                     /\ steps' = <<"waitForARJS">>
             /\ attempts' = 0
        ELSE /\ attempts' = attempts + 1
             /\ stage' = IF attempts + 1 <= maxAttempts THEN "waitForARJS"
                         ELSE "libraryTimeout"
             /\ UNCHANGED <<initCalls, statusText, steps>>
    /\ UNCHANGED <<appVars, heuristicVars, arjsVars, videoStatus, cameraFailure,
                   loaderVars, detectorVars,
                   overlayVars>>

\* One turn of the loop of waitForARJS, from a test of the globals to the
\* next.  With the globals there it calls init(), which runs up to its first
\* await; without them it sleeps, counts, and throws after the last turn
\* (nothing awaits the promise the constructor got, nothing is displayed).
waitForARJS ==
    /\ app = "arjs" /\ stage = "waitForARJS" /\ attempts < maxAttempts
    /\ \E loaded \in BOOLEAN, scene \in BOOLEAN :
        IF loaded
        THEN /\ initCalls' = initCalls + 1
             /\ IF scene
                THEN /\ statusText' = "Initializing"
                     /\ stage' = "checkCameraAccess"
                     /\ steps' = <<"waitForARJS", "initThreeJS">>
                ELSE /\ initCatch
                     /\ steps' = <<"waitForARJS">>
             /\ attempts' = 0   \* the loop is left; its local is dead
        ELSE /\ attempts' = attempts + 1
             /\ stage' = IF attempts + 1 < maxAttempts THEN "waitForARJS"
                         ELSE "libraryTimeout"
             /\ UNCHANGED <<initCalls, statusText, steps>>
    /\ UNCHANGED <<appVars, heuristicVars, arjsVars, videoStatus, cameraFailure,
                   loaderVars, detectorVars,
                   overlayVars>>

\* checkCameraAccess settles: it rethrows what getUserMedia rejected with
checkCameraAccess ==
    /\ app = "arjs" /\ stage = "checkCameraAccess"
    /\ \E granted \in BOOLEAN :
        IF granted
        THEN /\ statusText' = "Setting up"
             /\ stage' = "initARJS"
             /\ steps' = Append(steps, "checkCameraAccess")
             /\ UNCHANGED cameraFailure
        ELSE /\ cameraFailure' = "checkCameraAccess"
             /\ initCatch
             /\ UNCHANGED steps
    /\ UNCHANGED <<appVars, heuristicVars, arjsVars, attempts, initCalls, videoStatus,
                   loaderVars, detectorVars,
                   overlayVars>>

\* initARJS settles.  It got the stream and made this.videoElement, or
\* getUserMedia was refused, which its inner catch (lines 424-426) only
\* warns about, or something before that threw (new ARController), which
\* it rethrows.
initARJS ==
    /\ app = "arjs" /\ stage = "initARJS"
    /\ \E outcome \in {"stream", "refused", "throw"} :
        /\ hasVideoElement' = (outcome = "stream")
        /\ cameraFailure' = IF outcome = "refused" THEN "initARJS" ELSE cameraFailure
        /\ IF outcome = "throw" THEN initCatch /\ UNCHANGED steps
           ELSE /\ statusText' = "Loading"
                /\ stage' = "loadVideoAssets"
                /\ steps' = Append(steps, "initARJS")
    /\ UNCHANGED <<appVars, heuristicVars, arjsTickVars, attempts, initCalls,
                   videoStatus, loaderVars, detectorVars,
                   overlayVars>>

\* mutant of loadVideoAssetsFailed: the rejection is shown in the video
\* status and not rethrown, so init() goes on to Ready and animate
loadVideoAssetsFailed_keepsLoop ==
    /\ app = "arjs" /\ stage = "loadVideoAssets" /\ ~started
    /\ \E in \in AInputs :
        ATick([AFields EXCEPT !.videoStatus = "Load failed"], in, TRUE)
    /\ statusText' = "Ready"
    /\ stage' = "running"
    /\ started' = TRUE
    /\ UNCHANGED steps
    /\ UNCHANGED <<app, heuristicVars, attempts, initCalls, cameraFailure, loaderVars, detectorVars,
                   overlayVars>>

\* loadVideoTexture rejected: the catch of loadVideoAssets (lines 479-485)
\* shows it in the video status and rethrows
loadVideoAssetsFailed ==
    /\ app = "arjs" /\ stage = "loadVideoAssets"
    /\ videoStatus' = "Load failed"
    /\ initCatch
    /\ UNCHANGED steps
    /\ UNCHANGED <<appVars, heuristicVars, arjsVars, attempts, initCalls, cameraFailure,
                   loaderVars, detectorVars,
                   overlayVars>>

\* loadVideoTexture resolved: loadVideoAssets makes the hidden mesh, and
\* init() shows Ready and makes the first call of animate
initA ==
    /\ app = "arjs" /\ stage = "loadVideoAssets" /\ ~started
    /\ \E in \in AInputs :
        ATick([AFields EXCEPT !.videoStatus = "Ready"], in, TRUE)
    /\ statusText' = "Ready"
    /\ stage' = "running"
    /\ steps' = Append(steps, "loadVideoAssets")
    /\ started' = TRUE
    /\ UNCHANGED <<app, heuristicVars, attempts, initCalls, cameraFailure, loaderVars, detectorVars,
                   overlayVars>>

\* the browser runs the queued callback this.animate
animationFrameA ==
    /\ app = "arjs" /\ started /\ rafPending
    /\ \E in \in AInputs : ATick([AFields EXCEPT !.raf = FALSE], in, FALSE)
    /\ UNCHANGED <<app, started, heuristicVars, stage, attempts, initCalls,
                   statusText, cameraFailure, steps, loaderVars, detectorVars,
                   overlayVars>>

Next ==
    \/ initH \/ animationFrameH
    \/ waitForARJS \/ checkCameraAccess \/ initARJS \/ loadVideoAssetsFailed
    \/ initA \/ animationFrameA

Spec == Init /\ [][Next]_vars

\* The start-up chain alone, up to the point where init() has its assets.
\* The sleep of waitForARJS is a 50 ms timer, and timers fire.
StartupNext ==
    \/ waitForARJS \/ checkCameraAccess \/ initARJS \/ loadVideoAssetsFailed

StartupSpec == Init /\ [][StartupNext]_vars /\ WF_vars(waitForARJS)

(***************************************************************************)
(* An AssetLoader on its own, called by any client in any order.           *)
(***************************************************************************)
LoaderInit == app = "assetLoader" /\ Constructed /\ NoVideo /\ NoOverlay

Store(f) ==
    /\ loadedAssets' = f.loadedAssets
    /\ loadingPromises' = f.loadingPromises
    /\ loads' = f.loads
    /\ callers' = f.callers
    /\ UNCHANGED <<appVars, heuristicVars, arjsVars, startupVars, detectorVars,
                   overlayVars>>

\* no teardown is in force, or the one that is stays so
NoTeardown == [done |-> FALSE, assets |-> {}]

\* a client calls loadVideoTexture(url, name, videoConfig)
callLoadVideoTexture ==
    /\ app = "assetLoader" /\ Len(callers) < MaxCalls
    /\ \E name \in Names, request \in Requests :
        Store(loadVideoTexture(LFields, name, request))
    /\ tornDown' = NoTeardown

\* the video element of a load fires canplay
canplay ==
    /\ app = "assetLoader"
    /\ \E l \in DOMAIN loads : loads[l].listening /\ Store(onCanPlay(LFields, l))
    /\ UNCHANGED tornDown

\* the video element of a load fires error
error ==
    /\ app = "assetLoader"
    /\ \E l \in DOMAIN loads : loads[l].listening /\ Store(onError(LFields, l))
    /\ UNCHANGED tornDown

\* the 30 s timer of a load fires
timeout ==
    /\ app = "assetLoader"
    /\ \E l \in DOMAIN loads : loads[l].timer /\ Store(onTimeout(LFields, l))
    /\ UNCHANGED tornDown

\* a client calls dispose(name)
callDispose ==
    /\ app = "assetLoader"
    /\ \E name \in Names : Store(dispose(LFields, name))
    /\ UNCHANGED tornDown

\* a client calls disposeAll()
callDisposeAll ==
    /\ app = "assetLoader"
    /\ Store(disposeAll(LFields))
    /\ tornDown' = [done |-> TRUE,
                    assets |-> {loadedAssets[n] : n \in Names} \ {0}]

LoaderNext ==
    \/ callLoadVideoTexture \/ canplay \/ error \/ timeout
    \/ callDispose \/ callDisposeAll

LoaderSpec == LoaderInit /\ [][LoaderNext]_vars

(***************************************************************************)
(* The applications with the clip playing.  Between two ticks the video   *)
(* element, when not paused, moves on in the clip, which loops (loop: true *)
(* in VIDEO_ASSETS and in createVideoPlane).  The ticks of the AR.js loop  *)
(* are those in which nothing but a handler throws and the FPS second is   *)
(* over.                                                                   *)
(***************************************************************************)
PlaybackInit == app \in {"heuristic", "arjs"} /\ Constructed /\ NoVideo /\ NoOverlay

PlaybackInputs ==
    {in \in AInputs : /\ in.detect.kind # "throw" /\ in.pose \in {"fail", "M1"}
                      /\ ~in.renderThrows /\ in.fpsElapsed}

\* the step is a tick on one of these inputs
PlaybackTick == tickIn' \in PlaybackInputs

playbackInitA == initA /\ PlaybackTick

playbackFrameA == animationFrameA /\ PlaybackTick

\* the playing video element moves on by a frame
timeupdate ==
    /\ app = "arjs" /\ started /\ ~videoPaused
    /\ videoCurrentTime' = (videoCurrentTime + 1) % VideoLength
    /\ UNCHANGED <<appVars, heuristicVars, startupVars, loaderVars, detectorVars,
                   hasVideoElement, isMarkerDetected, markerGroupVisible,
                   markerGroupMatrix, matrixAutoUpdate, videoMeshVisible,
                   videoPaused, errorLogged, errorLog, caughtError, frameCount,
                   overlayVars>>

\* the same for the video element of the heuristic ARApp
timeupdateH ==
    /\ app = "heuristic" /\ started /\ ~arVideoPaused
    /\ arVideoCurrentTime' = (arVideoCurrentTime + 1) % VideoLength
    /\ UNCHANGED <<appVars, arjsVars, startupVars, loaderVars, detectorVars, detectorVariant,
                   isTracking, arVideoVisible, arVideoPaused,
                   cameraMatrixWorldInverse, arVideoMatrix, debugInfo,
                   overlayVars>>

PlaybackNext ==
    \/ initH \/ animationFrameH \/ timeupdateH
    \/ waitForARJS \/ checkCameraAccess \/ initARJS \/ loadVideoAssetsFailed
    \/ playbackInitA \/ playbackFrameA \/ timeupdate

PlaybackSpec == PlaybackInit /\ [][PlaybackNext]_vars

(***************************************************************************)
(* DetectorSpec: the two detectors of detector.js on one video element     *)
(* that holds a picture.  The pictures are: every red and black painting   *)
(* of up to MaxPixels pixels, the empty ones included; one and two pixels  *)
(* in colours on either side of the thresholds; rows of runs of            *)
(* minClusterSize to minClusterSize + 2 red pixels with a black row        *)
(* between; one red rectangle anywhere in a picture; and pictures of 100   *)
(* and 200 pixels with a few red ones.                                     *)
(***************************************************************************)
MaxPixels == 8
MaxClusters == 5
MaxRectWidth == 8
MaxRectHeight == 6
MaxRatioRed == 3
\* pending play promises and armed hide timers of the overlay, together
MaxPending == 3

SmallFrame ==
    \E d \in {e \in (0..MaxPixels) \X (0..MaxPixels) : e[1] * e[2] <= MaxPixels} :
        \E red \in SUBSET (0..(d[1] * d[2] - 1)) : frame = Paint(d[1], d[2], red)

Palette ==
    {Red, Black, [r |-> 201, g |-> 99, b |-> 99], [r |-> 200, g |-> 0, b |-> 0],
     [r |-> 255, g |-> 100, b |-> 0], [r |-> 255, g |-> 0, b |-> 100]}
PaletteFrame ==
    \E n \in 1..2 : \E d \in [0..(n - 1) -> Palette] :
        frame = [width |-> n, height |-> 1, data |-> d]

\* runs of lens[i] red pixels from column 1 on, on every other row
StripWidth == minClusterSize + 4
Strip(lens) ==
    Paint(StripWidth, 2 * Len(lens) - 1,
          UNION {{2 * (i - 1) * StripWidth + x : x \in 1..lens[i]} : i \in DOMAIN lens})
StripFrame ==
    \E k \in 1..MaxClusters :
        \E lens \in [1..k -> minClusterSize..(minClusterSize + 2)] :
            frame = Strip(lens)

\* the pixels of the rectangle with corners (x0, y0) and (x1, y1)
Rect(x0, y0, x1, y1, width) == {y * width + x : x \in x0..x1, y \in y0..y1}
RectFrame ==
    \E w \in 1..MaxRectWidth, h \in 1..MaxRectHeight :
        \E x0 \in 0..(w - 1), y0 \in 0..(h - 1) :
            \E x1 \in x0..(w - 1), y1 \in y0..(h - 1) :
                frame = Paint(w, h, Rect(x0, y0, x1, y1, w))

RatioFrame ==
    \E w \in {10, 20}, k \in 0..MaxRatioRed : frame = Paint(w, 10, 0..(k - 1))

DetectorInit ==
    /\ app = "detector" /\ Constructed /\ NoOverlay
    /\ SmallFrame \/ PaletteFrame \/ StripFrame \/ RectFrame \/ RatioFrame
    /\ readyState \in {HAVE_ENOUGH_DATA - 1, HAVE_ENOUGH_DATA}
    /\ canvas = [single |-> NewCanvas, multi |-> NewCanvas]
    /\ detection = NoResult
    /\ canvasCalls = <<>>
    /\ clustersFound = <<>>

\* the video element fires loadedmetadata: both detectors listen
loadedmetadata ==
    /\ app = "detector"
    /\ canvas' = [single |-> updateCanvasSize(frame), multi |-> updateCanvasSize(frame)]
    /\ UNCHANGED <<appVars, heuristicVars, arjsVars, startupVars, loaderVars,
                   frame, readyState, detection, canvasCalls, clustersFound,
                   overlayVars>>

\* a client calls detect() of the single-marker detector
callDetectSingle ==
    /\ app = "detector"
    /\ \E d \in {detectSingle(frame, readyState, canvas.single)} :
        /\ canvas' = [canvas EXCEPT !.single = d.canvas]
        /\ detection' = d.result
        /\ canvasCalls' = d.calls
        /\ clustersFound' = d.clusters
    /\ UNCHANGED <<appVars, heuristicVars, arjsVars, startupVars, loaderVars,
                   frame, readyState,
                   overlayVars>>

\* a client calls detect() of the multi-cluster detector
callDetectMulti ==
    /\ app = "detector"
    /\ \E d \in {detectMulti(frame, readyState, canvas.multi)} :
        /\ canvas' = [canvas EXCEPT !.multi = d.canvas]
        /\ detection' = d.result
        /\ canvasCalls' = d.calls
        /\ clustersFound' = d.clusters
    /\ UNCHANGED <<appVars, heuristicVars, arjsVars, startupVars, loaderVars,
                   frame, readyState,
                   overlayVars>>

DetectorNext == loadedmetadata \/ callDetectSingle \/ callDetectMulti

DetectorSpec == DetectorInit /\ [][DetectorNext]_vars

(***************************************************************************)
(* The overlay of the legacy page, src/app.js lines 76-162: the click      *)
(* handler of the enter-fullscreen button, the reactions of its            *)
(* video.play() promise, the 500 ms timer, the loadedmetadata handler of   *)
(* initVideo and handleFullscreenChange.  The browser answers a            *)
(* requestFullscreen() later, with fullscreenchange or with                *)
(* fullscreenerror; play() clears the paused attribute at once and its     *)
(* promise settles later; pause() rejects the pending play promises.       *)
(***************************************************************************)
OverlayInit == app = "overlay" /\ Constructed /\ NoVideo /\ NoOverlay

\* classList.add and classList.remove
add(classList, tokens) == classList \cup tokens
remove(classList, tokens) == classList \ tokens

\* handleFullscreenChange, lines 154-162, as what it leaves of the overlay's
\* classes, the video and the pending play promises
handleFullscreenChange(isFullscreen) ==
    IF ~isFullscreen
    THEN /\ fullscreenOverlay' = remove(fullscreenOverlay, {"hidden", "transparent"})
         /\ overlayVideo' = [overlayVideo EXCEPT !.paused = TRUE]
         /\ playPromises' = 0
    ELSE UNCHANGED <<fullscreenOverlay, overlayVideo, playPromises>>

\* the click handler of #enter-fullscreen, lines 122-141, up to its return.
\* The button is part of the overlay: no click reaches it once the overlay
\* has the class hidden.
click ==
    /\ app = "overlay" /\ "hidden" \notin fullscreenOverlay
    /\ playPromises + hideTimers < MaxPending
    /\ fullscreenRequested' = (fullscreenRequested \/ ~fullscreenElement)
    /\ overlayVideo' = [overlayVideo EXCEPT !.paused = FALSE]
    /\ playPromises' = playPromises + 1
    /\ exited' = FALSE
    /\ UNCHANGED <<fullscreenElement, fullscreenOverlay, hideTimers>>
    /\ UNCHANGED <<appVars, heuristicVars, arjsVars, startupVars, loaderVars, detectorVars>>

\* playback begins: the pending play promises resolve and each then-callback
\* (lines 131-137) adds transparent and arms a timer
playResolved ==
    /\ app = "overlay" /\ playPromises > 0 /\ ~overlayVideo.paused
    /\ fullscreenOverlay' = add(fullscreenOverlay, {"transparent"})
    /\ hideTimers' = hideTimers + playPromises
    /\ playPromises' = 0
    /\ UNCHANGED <<fullscreenElement, fullscreenRequested, overlayVideo, exited>>
    /\ UNCHANGED <<appVars, heuristicVars, arjsVars, startupVars, loaderVars, detectorVars>>

\* the clip cannot be played: the pending play promises reject and the
\* catch-callback (lines 137-140) logs and alerts
playRejected ==
    /\ app = "overlay" /\ playPromises > 0
    /\ playPromises' = 0
    /\ UNCHANGED <<fullscreenElement, fullscreenRequested, fullscreenOverlay,
                   overlayVideo, hideTimers, exited>>
    /\ UNCHANGED <<appVars, heuristicVars, arjsVars, startupVars, loaderVars, detectorVars>>

\* a 500 ms timer fires, lines 134-136
hideTimer ==
    /\ app = "overlay" /\ hideTimers > 0
    /\ hideTimers' = hideTimers - 1
    /\ fullscreenOverlay' = add(fullscreenOverlay, {"hidden"})
    /\ UNCHANGED <<fullscreenElement, fullscreenRequested, overlayVideo,
                   playPromises, exited>>
    /\ UNCHANGED <<appVars, heuristicVars, arjsVars, startupVars, loaderVars, detectorVars>>

\* the browser grants the request: fullscreenchange with the element set
fullscreenEntered ==
    /\ app = "overlay" /\ fullscreenRequested /\ ~fullscreenElement
    /\ fullscreenElement' = TRUE
    /\ fullscreenRequested' = FALSE
    /\ handleFullscreenChange(TRUE)
    /\ UNCHANGED <<hideTimers, exited>>
    /\ UNCHANGED <<appVars, heuristicVars, arjsVars, startupVars, loaderVars, detectorVars>>

\* the browser refuses the request (fullscreenerror), or answers one made
\* in fullscreen: no fullscreenchange, no handler
fullscreenNotEntered ==
    /\ app = "overlay" /\ fullscreenRequested
    /\ fullscreenRequested' = FALSE
    /\ UNCHANGED <<fullscreenElement, fullscreenOverlay, overlayVideo,
                   playPromises, hideTimers, exited>>
    /\ UNCHANGED <<appVars, heuristicVars, arjsVars, startupVars, loaderVars, detectorVars>>

\* the user leaves fullscreen: fullscreenchange with no element
fullscreenExited ==
    /\ app = "overlay" /\ fullscreenElement
    /\ fullscreenElement' = FALSE
    /\ handleFullscreenChange(FALSE)
    /\ exited' = TRUE
    /\ UNCHANGED <<fullscreenRequested, hideTimers>>
    /\ UNCHANGED <<appVars, heuristicVars, arjsVars, startupVars, loaderVars, detectorVars>>

\* the video fires loadedmetadata: the handler of initVideo, lines 88-90,
\* calls play() on the muted clip
videoLoadedMetadata ==
    /\ app = "overlay" /\ ~overlayVideo.loadedmetadata
    /\ overlayVideo' = [paused |-> FALSE, loadedmetadata |-> TRUE]
    /\ UNCHANGED <<fullscreenElement, fullscreenRequested, fullscreenOverlay,
                   playPromises, hideTimers, exited>>
    /\ UNCHANGED <<appVars, heuristicVars, arjsVars, startupVars, loaderVars, detectorVars>>

OverlayNext ==
    \/ click \/ playResolved \/ playRejected \/ hideTimer
    \/ fullscreenEntered \/ fullscreenNotEntered \/ fullscreenExited
    \/ videoLoadedMetadata

OverlaySpec == OverlayInit /\ [][OverlayNext]_vars

(***************************************************************************)
(* Vocabulary of the properties.                                           *)
(***************************************************************************)
InTrace(label) == \E i \in DOMAIN trace : trace[i] = label
IsEvent(label) == label \in {"MarkerFound", "MarkerLost"}
\* the MarkerFound / MarkerLost events of the most recent tick, in order
Events == SelectSeq(trace, IsEvent)
\* the tracking flag now, and when the most recent tick began
Tracking == IF app = "heuristic" THEN isTracking ELSE isMarkerDetected
PreTracking == IF app = "heuristic" THEN pre.isTracking ELSE pre.detected
\* the pose transform now, and when the most recent tick began
Pose == IF app = "heuristic" THEN cameraMatrixWorldInverse ELSE markerGroupMatrix
PrePose == IF app = "heuristic" THEN pre.pose ELSE pre.matrix
\* the most recent tick had a frame in the enough-data state to work on
FrameReady == tickIn.ready
\* the most recent tick ran detection, which reported a marker
Detected ==
    /\ InTrace("detect")
    /\ IF app = "heuristic" THEN Found(tickIn.detect)
       ELSE tickIn.detect.kind = "markers" /\ tickIn.detect.n > 0
\* ... and reported none (it returned; it did not throw)
NotDetected ==
    /\ InTrace("detect") /\ tickIn.detect.kind # "throw" /\ ~Detected
\* the most recent tick estimated a pose, and the estimate succeeded
PoseSucceeded ==
    /\ InTrace("pose")
    /\ IF app = "heuristic"
       THEN ~tickIn.poseThrows
            /\ ~calculateModelViewMatrix(tickIn.detect.rvec, tickIn.detect.tvec).threw
       ELSE PoseSuccess(tickIn.pose)
\* the most recent tick estimated a pose, which failed or threw
PoseFailed == InTrace("pose") /\ ~PoseSucceeded
\* the event expected at position i of a tick that began with flag t
ExpectedEvent(t, i) ==
    IF t = (i % 2 = 1) THEN "MarkerLost" ELSE "MarkerFound"
\* position of the first call of label in the most recent tick, 0 if none
FirstCall(label) ==
    IF InTrace(label)
    THEN CHOOSE i \in DOMAIN trace :
            trace[i] = label /\ \A j \in 1..(i - 1) : trace[j] # label
    ELSE 0

(***************************************************************************)
(* C1 as stated: in both tick loops onMarkerFound is invoked only in a     *)
(* tick that changes the state from Lost to Tracking, onMarkerLost only in *)
(* a tick that changes it from Tracking to Lost, and a tick that leaves    *)
(* the tracking flag unchanged emits no event.                             *)
(***************************************************************************)
C1_EventsOnlyInStateChangingTicks ==
    started =>
        /\ InTrace("MarkerFound") => ~PreTracking /\ Tracking
        /\ InTrace("MarkerLost") => PreTracking /\ ~Tracking
        /\ PreTracking = Tracking => Events = <<>>

(***************************************************************************)
(* C1 amended: in both tick loops the events of a tick strictly alternate, *)
(* the first being MarkerFound when the tick began Lost and MarkerLost     *)
(* when it began Tracking, and the flag after the tick is the one the last *)
(* event names (the flag of before when there was no event).  So events    *)
(* alternate over any sequence of ticks starting with MarkerFound, a tick  *)
(* without a flag change emits none, and at most a MarkerFound followed by *)
(* a MarkerLost is emitted by a tick that begins and ends Lost.            *)
(***************************************************************************)
C1_EventsAlternateWithFlag ==
    started =>
        /\ \A i \in DOMAIN Events : Events[i] = ExpectedEvent(PreTracking, i)
        /\ Tracking = IF Events = <<>> THEN PreTracking
                      ELSE Events[Len(Events)] = "MarkerFound"
        /\ Len(Events) <= 2
        /\ Len(Events) = 2 => ~PreTracking

\* C1 witness: a tick that emitted MarkerFound and then MarkerLost
C1_Witness ==
    started /\ Events = <<"MarkerFound", "MarkerLost">> /\ ~Tracking

(***************************************************************************)
(* C2 as stated: from Lost, the first tick in which detection and pose     *)
(* both succeed moves the state to Tracking and emits exactly one          *)
(* MarkerFound in that same tick.                                          *)
(***************************************************************************)
C2_AcquisitionEndsTracking ==
    started /\ ~PreTracking /\ Detected /\ PoseSucceeded =>
        Tracking /\ Events = <<"MarkerFound">>

(***************************************************************************)
(* C2 amended: from Lost, a tick in which detection and pose both succeed  *)
(* sets the flag and emits exactly one MarkerFound in that same tick, with *)
(* no debounce; the tick ends in Tracking unless the MarkerFound handler   *)
(* of the AR.js loop throws, in which case the same tick emits MarkerLost  *)
(* after it and ends Lost.                                                 *)
(***************************************************************************)
C2_AcquisitionEmitsFound ==
    started /\ ~PreTracking /\ Detected /\ PoseSucceeded =>
        /\ Len(Events) >= 1 /\ Events[1] = "MarkerFound"
        /\ Len(SelectSeq(trace, LAMBDA l : l = "MarkerFound")) = 1
        /\ IF app = "arjs" /\ tickIn.foundThrow # "none"
           THEN ~Tracking /\ Events = <<"MarkerFound", "MarkerLost">>
           ELSE Tracking /\ Events = <<"MarkerFound">>

\* C2 witness: the heuristic loop acquires the marker after a tick without one
C2_Witness ==
    /\ started /\ app = "heuristic" /\ pre.debugInfo = "notfound"
    /\ ~PreTracking /\ Detected /\ PoseSucceeded
    /\ Tracking /\ Events = <<"MarkerFound">>

C4_NotReadyTickLosesMarker ==
    started /\ PreTracking /\ ~FrameReady =>
        ~Tracking /\ InTrace("MarkerLost")

(***************************************************************************)
(* C5: in the AR.js loop, from every state a tick can begin in, a tick in  *)
(* which markers are reported but getTransMatSquare returns false ends     *)
(* with the same isMarkerDetected, markerGroup.visible, videoMesh.visible  *)
(* and emitted events as a tick in which no marker is reported.            *)
(***************************************************************************)
NoPoseInput == [NoInput EXCEPT !.ready = TRUE, !.detect = MarkersResult(1)]
NoMarkerInput == [NoInput EXCEPT !.ready = TRUE, !.detect = MarkersResult(0)]

C5_NoPoseSameAsNoMarker ==
    app = "arjs" /\ started /\ hasVideoElement =>
        \A lostThrow \in {"none", "early", "late"}, renderThrows \in BOOLEAN :
            LET s0 == [AFields EXCEPT !.raf = FALSE]
                a == animate(s0, [NoPoseInput EXCEPT !.lostThrow = lostThrow,
                                         !.renderThrows = renderThrows])
                b == animate(s0, [NoMarkerInput EXCEPT !.lostThrow = lostThrow,
                                         !.renderThrows = renderThrows])
            IN  /\ a.detected = b.detected
                /\ a.groupVisible = b.groupVisible
                /\ a.meshVisible = b.meshVisible
                /\ SelectSeq(a.trace, IsEvent) = SelectSeq(b.trace, IsEvent)

(***************************************************************************)
(* C6: pose estimation on malformed input (vectors absent or of the wrong  *)
(* length, NaN components) yields no pose: nothing is thrown, the pose     *)
(* transform is not overwritten, and the tick is handled as marker not     *)
(* found, on the library path and on the heuristic path.                   *)
(***************************************************************************)
MalformedVector(v) ==
    ~v.def \/ Len(v.el) # 3 \/ \E i \in DOMAIN v.el : v.el[i].nan

MalformedPoseInput ==
    /\ InTrace("pose")
    /\ IF app = "heuristic"
       THEN MalformedVector(tickIn.detect.rvec) \/ MalformedVector(tickIn.detect.tvec)
       ELSE tickIn.pose = "NaNs"

C6_MalformedPoseIsNoPose ==
    started /\ MalformedPoseInput =>
        /\ escaped = "none" /\ caughtError = "none" /\ ~InTrace("innerlog")
        /\ Pose = PrePose
        /\ ~Tracking /\ ~InTrace("MarkerFound")

(***************************************************************************)
(* C7: in every tick MarkerFound is emitted only after that tick's pose    *)
(* estimation has completed successfully, and the state is never Tracking  *)
(* at the end of a tick whose pose estimation failed or threw.             *)
(***************************************************************************)
C7_FoundOnlyAfterPose ==
    started =>
        /\ InTrace("MarkerFound") =>
               PoseSucceeded /\ FirstCall("pose") < FirstCall("MarkerFound")
        /\ PoseFailed => ~Tracking

(***************************************************************************)
(* C8: once the loop has started, every tick queues its successor whatever *)
(* happens in it, in both animate implementations: after each tick,        *)
(* thrown or not, an animation-frame callback is pending, and it was       *)
(* requested before anything else in the tick.                             *)
(***************************************************************************)
C8_EveryTickSchedulesNext ==
    started => rafPending /\ trace # <<>> /\ trace[1] = "raf"

\* C8 witness: a tick of the heuristic loop threw and the next is queued
C8_Witness ==
    started /\ app = "heuristic" /\ escaped # "none" /\ rafPending

(***************************************************************************)
(* C9: no exception raised by detection, pose estimation, an event handler *)
(* or rendering inside a tick leaves the tick callback, in both loops.     *)
(***************************************************************************)
C9_NoExceptionEscapesTick ==
    escaped = "none"

(***************************************************************************)
(* C10: an exception that reaches the tick boundary of the AR.js loop is   *)
(* logged the first time it occurs and not again when it recurs (so after  *)
(* a tick that caught it, it stands in the log exactly once), and the next *)
(* tick is queued.                                                         *)
(***************************************************************************)
C10_ErrorLoggedOncePerError ==
    app = "arjs" /\ caughtError # "none" =>
        /\ Len(SelectSeq(errorLog, LAMBDA e : e = caughtError)) = 1
        /\ rafPending

(***************************************************************************)
(* C11: in every tick the render surface is invoked exactly once, after    *)
(* the tick's detection, pose estimation and MarkerFound / MarkerLost      *)
(* handling; this in every tick, those without a ready frame and those     *)
(* whose detection or pose processing fails included.                      *)
(***************************************************************************)
C11_RenderOncePerTick ==
    started =>
        /\ Len(SelectSeq(trace, LAMBDA l : l = "render")) = 1
        /\ \A i \in DOMAIN trace :
               trace[i] \in {"detect", "pose", "MarkerFound", "MarkerLost"} =>
                   i < FirstCall("render")

(***************************************************************************)
(* C12: a call of loadVideoTexture made while an earlier call of the same  *)
(* name has not settled starts no load of its own: it is handed the        *)
(* promise of the one load in flight, so there is at most one load in      *)
(* flight per name, and all the calls on a load settle alike, with the     *)
(* identical asset or with the same error.                                 *)
(***************************************************************************)
C12_ConcurrentCallsShareOneLoad ==
    /\ \A c \in DOMAIN callers :
        callers[c].during # 0 =>
            /\ callers[c].via = "pending"
            /\ callers[c].load = callers[c].during
            /\ \A d \in DOMAIN callers :
                callers[d].via # "cache" /\ callers[d].load = callers[c].load =>
                    /\ callers[d].settled = callers[c].settled
                    /\ callers[d].value = callers[c].value
                    /\ callers[d].error = callers[c].error
    /\ \A k, l \in DOMAIN loads :
        /\ loads[k].name = loads[l].name
        /\ loads[k].state = "pending" /\ loads[l].state = "pending"
        => k = l

\* C12 witness: three calls of one name, the later two made while the first
\* was pending, all resolved with the asset of the one load
C12_Witness ==
    /\ Len(callers) = 3 /\ Len(loads) = 1
    /\ \A c \in DOMAIN callers : callers[c].settled = "resolved" /\ callers[c].value = 1
    /\ callers[2].during = 1 /\ callers[3].during = 1

(***************************************************************************)
(* C13: once a call of loadVideoTexture for a name has resolved, and until *)
(* dispose of that name or disposeAll is called, every further call with   *)
(* the name is answered from the cache with that same asset and starts no  *)
(* load, whatever url and configuration it passes.                         *)
(***************************************************************************)
C13_CachedUntilDisposed ==
    \A c \in DOMAIN callers :
        callers[c].cached # 0 =>
            /\ callers[c].via = "cache"
            /\ callers[c].settled = "resolved"
            /\ callers[c].value = callers[c].cached

\* C13 witness: a call answered from the cache although it passed another
\* url than the load that made the asset
C13_Witness ==
    \E c \in DOMAIN callers :
        /\ callers[c].cached # 0 /\ callers[c].value = callers[c].cached
        /\ callers[c].url # loads[callers[c].value].url

(***************************************************************************)
(* C14: a load whose video has fired neither canplay nor error when its    *)
(* 30 s timer fires is rejected with the timeout error, so that no call of *)
(* loadVideoTexture stays pending for ever.                                *)
(***************************************************************************)
C14_TimeoutRejectsLoad ==
    \A l \in DOMAIN loads :
        ~loads[l].timer /\ loads[l].listening =>
            /\ loads[l].state = "rejected" /\ loads[l].error = "timeout"
            /\ \A c \in DOMAIN callers :
                callers[c].load = l => callers[c].settled = "rejected"

(***************************************************************************)
(* C15: waitForARJS tests the globals at most maxAttempts times and always *)
(* comes to an end: with the globals there at some test it calls init      *)
(* exactly once and polls no more; with them absent at every test it       *)
(* throws after the last one and init is never called.                     *)
(***************************************************************************)
C15_BoundedPolling ==
    /\ [](app = "arjs" =>
            /\ attempts <= maxAttempts /\ initCalls <= 1
            /\ stage = "waitForARJS" => attempts < maxAttempts /\ initCalls = 0
            /\ stage = "libraryTimeout" => attempts = maxAttempts /\ initCalls = 0
            /\ stage \notin {"waitForARJS", "libraryTimeout"} => initCalls = 1)
    /\ <>(app = "arjs" => stage # "waitForARJS")

\* C15 witness: the globals were absent at every one of the tests
C15_Witness ==
    app = "arjs" /\ stage = "libraryTimeout" /\ attempts = maxAttempts /\ initCalls = 0

(***************************************************************************)
(* C16: when the library is not ready within the attempt budget the        *)
(* application ends in an error state shown in the status display, as for  *)
(* the other failures of initialization, and the tick loop is not started. *)
(***************************************************************************)
C16_LibraryTimeoutSurfaced ==
    stage = "libraryTimeout" => statusText = "Error" /\ ~started

(***************************************************************************)
(* C17: a refused camera, at the access check or at the acquisition of the *)
(* stream inside initARJS, is fatal: the error is shown in the status      *)
(* display and the tick loop is never started.                             *)
(***************************************************************************)
C17_CameraFailureFatal ==
    cameraFailure # "none" =>
        statusText = "Error" /\ stage = "initFailed" /\ ~started

(***************************************************************************)
(* C18: a failure to load the primary video asset is shown in the video    *)
(* status and does not keep the tick loop from running: initialization     *)
(* goes on to start the loop.                                              *)
(***************************************************************************)
C18_AssetFailureKeepsLoop ==
    videoStatus = "Load failed" =>
        started /\ rafPending /\ stage = "running" /\ statusText # "Error"

\* the video plane is drawn: it and, in the AR.js scene, its group are visible
PlaneVisible ==
    IF app = "heuristic" THEN arVideoVisible
    ELSE markerGroupVisible /\ videoMeshVisible
\* the paused attribute of the plane's video element
Paused == IF app = "heuristic" THEN arVideoPaused ELSE videoPaused

(***************************************************************************)
(* C19: after every tick of either loop playback and visibility agree with *)
(* the tracking state: in Tracking the video plane is visible and its      *)
(* video not paused, in Lost the plane is hidden and its video paused.     *)
(***************************************************************************)
C19_PlaybackFollowsTracking ==
    started =>
        IF Tracking THEN PlaneVisible /\ ~Paused ELSE ~PlaneVisible /\ Paused

(***************************************************************************)
(* C20: no tick changes the playback position: the handling of MarkerLost  *)
(* pauses and does not seek, that of MarkerFound plays and does not seek,  *)
(* so after Tracking, Lost, Tracking the clip goes on from where it was    *)
(* paused.                                                                 *)
(***************************************************************************)
C20_TicksKeepPosition ==
    [][initH \/ animationFrameH \/ playbackInitA \/ playbackFrameA =>
           /\ arVideoCurrentTime' = arVideoCurrentTime
           /\ videoCurrentTime' = videoCurrentTime]_vars

\* C20 witness: MarkerFound in a tick that began Lost inside the clip, the
\* clip paused there by an earlier MarkerLost, and the position is kept
C20_Witness ==
    /\ started /\ app = "arjs" /\ Events = <<"MarkerFound">>
    /\ pre.paused /\ pre.time > 0 /\ ~videoPaused /\ videoCurrentTime = pre.time

\* how often the most recent tick made the call named
Count(label) == Len(SelectSeq(trace, LAMBDA l : l = label))
\* the MarkerFound handler of the most recent tick threw before its play()
ThrewBeforePlay ==
    IF app = "heuristic" THEN tickIn.foundThrow # "none"
    ELSE tickIn.foundThrow = "early"

(***************************************************************************)
(* C21: the video goes from paused to playing only in the handling of a    *)
(* MarkerFound, at most once per MarkerFound and never in a tick without   *)
(* one; a MarkerFound whose handler reaches play() with the video paused   *)
(* starts it exactly once.                                                 *)
(***************************************************************************)
C21_PlayOnlyOnMarkerFound ==
    started =>
        /\ Count("play") <= Count("MarkerFound")
        /\ Count("MarkerFound") <= 1
        /\ InTrace("play") =>
               /\ pre.paused
               /\ FirstCall("MarkerFound") < FirstCall("play")
        /\ InTrace("MarkerFound") /\ pre.paused /\ ~ThrewBeforePlay =>
               Count("play") = 1

\* C21 as stated: one paused-to-playing transition per MarkerFound
C21_PlayOncePerMarkerFound ==
    started => Count("play") = Count("MarkerFound")

\* C21 witness: a tick that began Lost with the video paused ends Tracking
\* with one MarkerFound, one paused-to-playing transition, the video playing
C21_Witness ==
    /\ started /\ app = "arjs" /\ ~PreTracking /\ Tracking
    /\ Events = <<"MarkerFound">> /\ Count("play") = 1
    /\ pre.paused /\ ~videoPaused

(***************************************************************************)
(* C30: after disposeAll, and until loadVideoTexture is called again, the  *)
(* cache is empty and every video that was cached is paused with its       *)
(* source cleared, whatever was in flight when disposeAll was called.      *)
(***************************************************************************)
C30_TeardownEmptiesCache ==
    tornDown.done =>
        /\ \A n \in Names : ~has(loadedAssets, n)
        /\ \A l \in tornDown.assets : loads[l].paused /\ loads[l].released

\* the marker-coloured pixels of the picture the video holds
RedPixels == {i \in DOMAIN frame.data : isRed(frame.data[i])}
\* detect() of a detector has been called on a picture in the enough-data
\* state, and which detector it was
SingleDetected ==
    /\ app = "detector" /\ readyState = HAVE_ENOUGH_DATA
    /\ detection.kind = "object"
MultiDetected ==
    /\ app = "detector" /\ readyState = HAVE_ENOUGH_DATA
    /\ detection.kind = "array"

(***************************************************************************)
(* C22: on a picture with no marker-coloured pixel, the picture of zero    *)
(* pixels included, detect() of the multi-cluster detector returns the     *)
(* empty array and detect() of the single-marker detector { found: false },*)
(* and neither throws.                                                     *)
(***************************************************************************)
C22_NoRedPixelsNothingFound ==
    /\ app = "detector" /\ readyState = HAVE_ENOUGH_DATA
    /\ RedPixels = {} /\ detection.kind # "none"
    => detection \in {NotFoundResult, MarkerArray(<<>>)}

\* the number of pixels of the picture the video holds
FramePixels == frame.width * frame.height

(***************************************************************************)
(* C23: on a picture of more than minClusterSize pixels, all of them       *)
(* marker-coloured, detect() of the multi-cluster detector returns exactly *)
(* one detection, and its pixel count is width * height.                   *)
(***************************************************************************)
C23_AllRedOneDetection ==
    MultiDetected /\ FramePixels > minClusterSize /\ RedPixels = DOMAIN frame.data
    => /\ Len(detection.markers) = 1
       /\ detection.markers[1].pixelCount = FramePixels

\* C23 witness: a picture of several rows and columns, all red, gave one
\* detection of all its pixels
C23_Witness ==
    /\ MultiDetected /\ FramePixels > minClusterSize
    /\ frame.width > 1 /\ frame.height > 1
    /\ RedPixels = DOMAIN frame.data
    /\ Len(detection.markers) = 1
    /\ detection.markers[1].pixelCount = FramePixels

\* two pixels of the grid next to each other in a row or in a column
Adjacent4(a, b) ==
    LET xa == a % frame.width
        ya == a \div frame.width
        xb == b % frame.width
        yb == b \div frame.width
    IN  \/ ya = yb /\ (xa = xb + 1 \/ xb = xa + 1)
        \/ xa = xb /\ (ya = yb + 1 \/ yb = ya + 1)
\* the marker-coloured pixels linked to the given ones by chains of
\* marker-coloured pixels adjacent on the grid
RECURSIVE Linked(_)
Linked(pixels) ==
    LET next == pixels \cup {b \in RedPixels : \E a \in pixels : Adjacent4(a, b)}
    IN  IF next = pixels THEN pixels ELSE Linked(next)
\* the pixels of the cluster the latest detect() put pixel a in
ClusterOf(a) ==
    UNION {{clustersFound[i][j] : j \in DOMAIN clustersFound[i]} :
              i \in {k \in DOMAIN clustersFound :
                        \E j \in DOMAIN clustersFound[k] : clustersFound[k][j] = a}}

(***************************************************************************)
(* C24: the clusters the multi-cluster detector builds are the 4-connected *)
(* components of the marker-coloured pixels on the width x height grid:    *)
(* two such pixels are in one cluster exactly when a chain of pixels       *)
(* adjacent in a row or a column links them; the last pixel of a row and   *)
(* the first of the next row are not adjacent.                             *)
(***************************************************************************)
C24_ClustersAreComponents ==
    MultiDetected => \A a \in RedPixels : ClusterOf(a) = Linked({a})

\* the clusters the latest detect() built that exceed minClusterSize
Qualifying == {k \in DOMAIN clustersFound : Len(clustersFound[k]) > minClusterSize}

(***************************************************************************)
(* C25: every detection detect() of the multi-cluster detector returns has *)
(* a pixel count above minClusterSize; a cluster of minClusterSize pixels  *)
(* or fewer is never returned.                                             *)
(***************************************************************************)
C25_SmallClustersDropped ==
    MultiDetected =>
        /\ \A i \in DOMAIN detection.markers :
               detection.markers[i].pixelCount > minClusterSize
        /\ Len(detection.markers) <= Cardinality(Qualifying)

\* C25 witness: of a cluster of minClusterSize pixels and one of one pixel
\* more, the second alone was returned
C25_Witness ==
    /\ MultiDetected
    /\ \E k \in DOMAIN clustersFound : Len(clustersFound[k]) = minClusterSize
    /\ Len(detection.markers) = 1
    /\ detection.markers[1].pixelCount = minClusterSize + 1

\* how many qualifying clusters, and how many returned detections, have v pixels
QualifyingOfSize(v) == Cardinality({k \in Qualifying : Len(clustersFound[k]) = v})
ReturnedOfSize(v) ==
    Cardinality({i \in DOMAIN detection.markers : detection.markers[i].pixelCount = v})
\* the sizes of the qualifying clusters
QualifyingSizes == {Len(clustersFound[k]) : k \in Qualifying}

(***************************************************************************)
(* C26: what detect() of the multi-cluster detector returns is in order of *)
(* non-increasing pixel count and has at most maxMarkers entries: all the  *)
(* qualifying clusters when there are no more than maxMarkers, else the    *)
(* maxMarkers largest of them.                                             *)
(***************************************************************************)
C26_LargestFirstAtMostFour ==
    MultiDetected =>
        LET m == detection.markers
        IN  /\ Len(m) <= maxMarkers
            /\ Len(m) = IF Cardinality(Qualifying) < maxMarkers
                        THEN Cardinality(Qualifying) ELSE maxMarkers
            /\ \A i \in DOMAIN m : \A j \in DOMAIN m :
                   i < j => m[i].pixelCount >= m[j].pixelCount
            /\ \A i \in DOMAIN m : m[i].pixelCount \in QualifyingSizes
            /\ \A v \in QualifyingSizes :
                   /\ ReturnedOfSize(v) <= QualifyingOfSize(v)
                   /\ Len(m) > 0 /\ v > m[Len(m)].pixelCount =>
                          ReturnedOfSize(v) = QualifyingOfSize(v)

\* C26 witness: of five qualifying clusters the first built was the
\* smallest, and the four returned are the four larger ones
C26_Witness ==
    /\ MultiDetected
    /\ Cardinality(Qualifying) = maxMarkers + 1
    /\ Len(clustersFound[1]) = minClusterSize + 1
    /\ Len(detection.markers) = maxMarkers
    /\ \A i \in DOMAIN detection.markers :
           detection.markers[i].pixelCount = minClusterSize + 2

(***************************************************************************)
(* C27: while the video is not in the enough-data state, detect() of       *)
(* either detector returns its empty result, { found: false } or [], and   *)
(* does not resize the canvas, draw, read pixels or build a mask.          *)
(***************************************************************************)
C27_NotReadyReturnsAtOnce ==
    [][readyState # HAVE_ENOUGH_DATA =>
           /\ callDetectSingle => detection' = NotFoundResult
           /\ callDetectMulti => detection' = MarkerArray(<<>>)
           /\ callDetectSingle \/ callDetectMulti =>
                  /\ canvas' = canvas
                  /\ canvasCalls' = <<>>
                  /\ clustersFound' = <<>>]_vars

\* C27 witness: detect() of the multi-cluster detector returned [] on a
\* picture with a large red cluster, the video not being in the enough-data
\* state, and the canvas is as it was made
C27_Witness ==
    /\ app = "detector" /\ readyState # HAVE_ENOUGH_DATA
    /\ Cardinality(RedPixels) > minClusterSize
    /\ detection = MarkerArray(<<>>)
    /\ canvasCalls = <<>> /\ canvas.multi = NewCanvas

(***************************************************************************)
(* C28: detect() of the single-marker detector reports found exactly when  *)
(* the marker-coloured pixels are more than 1% of width * height           *)
(* (redCount * 100 > width * height), so not at exactly 1%; what it        *)
(* returns when found is the placeholder pose rvec = [0, 0, 0],            *)
(* tvec = [0, 0, 1] and nothing that locates the marker.                   *)
(***************************************************************************)
C28_FoundAboveOnePercent ==
    SingleDetected =>
        /\ detection.found <=> Cardinality(RedPixels) * 100 > FramePixels
        /\ detection = IF detection.found THEN FoundResult ELSE NotFoundResult
        /\ DOMAIN detection \cap {"x", "y", "size", "pixelCount"} = {}

\* C28 witness: marker-coloured pixels making exactly 1% of the picture,
\* and not found
C28_Witness ==
    /\ SingleDetected /\ RedPixels # {}
    /\ Cardinality(RedPixels) * 100 = FramePixels
    /\ detection = NotFoundResult

\* the columns and rows that hold a marker-coloured pixel
RedColumns == {i % frame.width : i \in RedPixels}
RedRows == {i \div frame.width : i \in RedPixels}
Least(S) == CHOOSE v \in S : \A u \in S : v <= u
Greatest(S) == CHOOSE v \in S : \A u \in S : v >= u
\* the marker-coloured pixels are one solid rectangle of more than
\* minClusterSize pixels that touches neither the left nor the right edge
InnerRectangle ==
    /\ Cardinality(RedPixels) > minClusterSize
    /\ RedPixels = Rect(Least(RedColumns), Least(RedRows),
                        Greatest(RedColumns), Greatest(RedRows), frame.width)
    /\ Least(RedColumns) > 0
    /\ Greatest(RedColumns) < frame.width - 1

(***************************************************************************)
(* C29: on a picture whose marker-coloured pixels are one solid rectangle  *)
(* of more than minClusterSize pixels touching neither the left nor the    *)
(* right edge, detect() of the multi-cluster detector returns exactly one  *)
(* detection, its pixel count the area of the rectangle and its centroid   *)
(* the centre of the rectangle; detect() of the single-marker detector     *)
(* reports found when the area is more than 1% of the picture.             *)
(***************************************************************************)
C29_RectangleOneDetection ==
    /\ MultiDetected /\ InnerRectangle =>
           LET m == detection.markers
               area == Cardinality(RedPixels)
           IN  /\ Len(m) = 1
               /\ m[1].pixelCount = area
               /\ m[1].x.den = area /\ m[1].y.den = area
               /\ 2 * m[1].x.num = area * (Least(RedColumns) + Greatest(RedColumns))
               /\ 2 * m[1].y.num = area * (Least(RedRows) + Greatest(RedRows))
    /\ SingleDetected /\ InnerRectangle
           /\ Cardinality(RedPixels) * 100 > FramePixels => detection = FoundResult

\* C29 witness: a rectangle off every edge, its centre between two columns,
\* returned as one detection of its area
C29_Witness ==
    /\ MultiDetected /\ InnerRectangle
    /\ Least(RedRows) > 0 /\ Greatest(RedRows) < frame.height - 1
    /\ (Least(RedColumns) + Greatest(RedColumns)) % 2 = 1
    /\ Len(detection.markers) = 1
    /\ detection.markers[1].pixelCount = Cardinality(RedPixels)

\* the pixels of the k-th cluster the latest detect() built, as a set
PixelsOf(k) == {clustersFound[k][j] : j \in DOMAIN clustersFound[k]}
\* the call of floodFill that built it: its start pixel is the first pixel
\* taken, the marks it was given are the pixels of the clusters before it
FillOf(k) ==
    floodFill(clustersFound[k][1], frame.width, frame.height,
              [idx \in DOMAIN frame.data |-> IF isRed(frame.data[idx]) THEN 1 ELSE 0],
              UNION {PixelsOf(i) : i \in 1..(k - 1)})
RECURSIVE TotalLen(_)
TotalLen(seqs) == IF seqs = <<>> THEN 0 ELSE Len(Head(seqs)) + TotalLen(Tail(seqs))

(***************************************************************************)
(* C31: floodFill comes to an end, after at most one pass of its loop for  *)
(* the start pixel and four for each pixel it takes; over one call of      *)
(* findRedMarkers every marker-coloured pixel is taken into exactly one    *)
(* cluster exactly once, so the clusters are pairwise disjoint and their   *)
(* pixel counts, before the size filter, add up to the number of           *)
(* marker-coloured pixels.                                                 *)
(***************************************************************************)
C31_EveryRedPixelOnce ==
    MultiDetected =>
        /\ \A k \in DOMAIN clustersFound :
               /\ Cardinality(PixelsOf(k)) = Len(clustersFound[k])
               /\ FillOf(k).pixels = clustersFound[k]
               /\ FillOf(k).dequeued <= 1 + 4 * Len(clustersFound[k])
        /\ \A k \in DOMAIN clustersFound : \A l \in DOMAIN clustersFound :
               k # l => PixelsOf(k) \cap PixelsOf(l) = {}
        /\ UNION {PixelsOf(k) : k \in DOMAIN clustersFound} = RedPixels
        /\ TotalLen(clustersFound) = Cardinality(RedPixels)

\* C31 witness: two clusters were built, and the fill of one dequeued more
\* often than it took pixels: its queue held a pixel more than once
C31_Witness ==
    /\ MultiDetected /\ Len(clustersFound) = 2
    /\ \E k \in DOMAIN clustersFound :
           FillOf(k).dequeued > Len(clustersFound[k])
    /\ TotalLen(clustersFound) = Cardinality(RedPixels)

\* the steps of init() in the order of its code, after the wait for the library
InitOrder ==
    <<"waitForARJS", "initThreeJS", "checkCameraAccess", "initARJS", "loadVideoAssets">>

\* init() was ended by its catch, or the wait for the library gave up
InitEnded == stage \in {"initFailed", "libraryTimeout"}

(***************************************************************************)
(* C32: the AR.js tick loop starts only after library ready, scene setup,  *)
(* camera access check, AR setup and video asset load have completed, in   *)
(* that order, each without throwing; at the first tick the video mesh     *)
(* exists (video status Ready), is hidden, and the state is Lost; and once *)
(* a step has thrown, the loop is never started.                           *)
(***************************************************************************)
C32_LoopStartsAfterInit ==
    [][app = "arjs" =>
        /\ \E n \in 0..Len(InitOrder) : steps' = SubSeq(InitOrder, 1, n)
        /\ started' => steps' = InitOrder /\ stage' = "running"
        /\ ~started /\ started' =>
              /\ steps = SubSeq(InitOrder, 1, 4)
              /\ pre'.videoStatus = "Ready"
              /\ ~pre'.meshVisible
              /\ ~pre'.detected
        /\ InitEnded => InitEnded' /\ ~started' /\ ~rafPending' /\ trace' = trace
    ]_vars

\* the first tick has run, after the five steps
C32_Witness ==
    /\ app = "arjs" /\ started /\ steps = InitOrder
    /\ pre.videoStatus = "Ready" /\ ~pre.meshVisible /\ ~pre.detected
    /\ stage = "running" /\ cameraFailure = "none"

\* the most recent AR.js tick took the branch for no markers (lines 585-595)
NoMarkerTick ==
    /\ app = "arjs" /\ started /\ Called([trace |-> trace], "detect")
    /\ tickIn.detect.kind = "markers" /\ tickIn.detect.n = 0

(***************************************************************************)
(* C33: in the AR.js loop, at the end of every tick a set tracking flag    *)
(* implies a visible marker group; so a tick through the no-marker branch  *)
(* that began Tracking ends Lost, with the group hidden and one MarkerLost *)
(* emitted: the test of markerGroup.visible never hides a set flag.        *)
(***************************************************************************)
C33_FlagImpliesGroupVisible ==
    app = "arjs" =>
        /\ isMarkerDetected => markerGroupVisible
        /\ NoMarkerTick /\ pre.detected =>
              /\ pre.groupVisible
              /\ ~isMarkerDetected /\ ~markerGroupVisible
              /\ Count("MarkerLost") = 1

\* a tick through the no-marker branch has taken the state from Tracking to Lost
C33_Witness ==
    /\ NoMarkerTick /\ pre.detected /\ pre.groupVisible
    /\ ~isMarkerDetected /\ Count("MarkerLost") = 1

\* in the most recent AR.js tick the inner try threw with the state Tracking:
\* getTransMatSquare threw in a tick that began Tracking, or onMarkerFound
\* threw after the flag was set
InnerThrowWhileTracking ==
    /\ app = "arjs" /\ started /\ Called([trace |-> trace], "pose")
    /\ \/ tickIn.pose = "throw" /\ pre.detected
       \/ Count("MarkerFound") = 1 /\ tickIn.foundThrow # "none"

(***************************************************************************)
(* C34: in the AR.js loop, when applying the pose or handling MarkerFound  *)
(* throws inside the inner try with the state Tracking, the tick ends      *)
(* Lost with the marker group hidden and exactly one MarkerLost emitted,   *)
(* and nothing of it reaches the outer handler: the outer catch catches    *)
(* nothing from the marker branch, errorLogged is as before unless the     *)
(* render call threw, and the render call of that tick is made.            *)
(***************************************************************************)
C34_InnerCatchContains ==
    InnerThrowWhileTracking =>
        /\ ~isMarkerDetected /\ ~markerGroupVisible
        /\ Count("MarkerLost") = 1
        /\ caughtError \in {"none", "render"}
        /\ caughtError = "none" => errorLogged = pre.errorLogged
        /\ Count("render") = 1

InFlight(name) ==
    {l \in DOMAIN loads : loads[l].name = name /\ loads[l].state = "pending"}

(***************************************************************************)
(* C36: between any two handlers of the loader, whatever calls of          *)
(* loadVideoTexture, dispose and disposeAll and whatever video events came *)
(* before: for every name at most one load is in flight, the name is not   *)
(* in both loadedAssets and loadingPromises, and loadingPromises holds the *)
(* name exactly while its load is in flight, so the entry of a load that   *)
(* has resolved or rejected is gone.                                       *)
(***************************************************************************)
C36_OneLoadInFlight ==
    app = "assetLoader" =>
        \A name \in Names :
            /\ Cardinality(InFlight(name)) <= 1
            /\ ~(has(loadedAssets, name) /\ has(loadingPromises, name))
            /\ InFlight(name) =
                   IF has(loadingPromises, name) THEN {loadingPromises[name]} ELSE {}

\* a name of which one load has rejected, one has resolved and been disposed
\* of, and a third is in flight
C36_Witness ==
    \E name \in Names :
        /\ \E l \in DOMAIN loads : loads[l].name = name /\ loads[l].state = "rejected"
        /\ \E l \in DOMAIN loads : loads[l].name = name /\ loads[l].released
        /\ InFlight(name) # {} /\ has(loadingPromises, name)

\* the loads of a name that have rejected
Rejected(name) ==
    {l \in DOMAIN loads : loads[l].name = name /\ loads[l].state = "rejected"}
\* the calls of loadVideoTexture that await load l: the one that started it
\* and those handed its promise
Awaiting(cs, l) == {c \in DOMAIN cs : cs[c].via # "cache" /\ cs[c].load = l}

(***************************************************************************)
(* C37: in the step in which a load rejects, every call awaiting it is     *)
(* rejected with its error, loadedAssets is unchanged and has no entry for *)
(* the name, and the name's entry in loadingPromises is removed.  A call   *)
(* of loadVideoTexture made later is never handed a rejected load; with    *)
(* the name neither cached nor in flight it starts a new load and awaits   *)
(* that.                                                                   *)
(***************************************************************************)
C37_RejectionReachesCallers ==
    [][app = "assetLoader" =>
        /\ \A l \in DOMAIN loads :
              loads[l].state = "pending" /\ loads'[l].state = "rejected" =>
                  /\ \A c \in Awaiting(callers, l) :
                        /\ callers'[c].settled = "rejected"
                        /\ callers'[c].error = loads'[l].error
                        /\ callers'[c].value = 0
                  /\ loadedAssets' = loadedAssets
                  /\ ~has(loadedAssets', loads[l].name)
                  /\ ~has(loadingPromises', loads[l].name)
        /\ Len(callers') = Len(callers) + 1 =>
              LET c == callers'[Len(callers')]
              IN  /\ c.via # "cache" => loads'[c.load].state = "pending"
                  /\ c.settled # "rejected"
                  /\ Rejected(c.name) # {} /\ InFlight(c.name) = {}
                        /\ ~has(loadedAssets, c.name) =>
                            /\ c.via = "load" /\ c.load = Len(loads) + 1
                            /\ Len(loads') = Len(loads) + 1
                            /\ loadingPromises'[c.name] = c.load
    ]_vars

\* two calls were rejected by one load, and a third call of the name, made
\* after that, awaits a load of its own
C37_Witness ==
    /\ Len(callers) = 3 /\ Len(loads) = 2
    /\ loads[1].state = "rejected" /\ loads[2].state = "pending"
    /\ callers[1].settled = "rejected" /\ callers[2].settled = "rejected"
    /\ callers[2].via = "pending" /\ callers[2].load = 1
    /\ callers[3].name = callers[1].name /\ callers[3].via = "load"
    /\ callers[3].load = 2 /\ ~has(loadedAssets, callers[3].name)

\* the detector result of the most recent heuristic tick holds a detection:
\* { found: true } of the single-marker detector, or a list with an element
\* of the multi-cluster one
HasDetection ==
    /\ app = "heuristic" /\ started /\ InTrace("detect")
    /\ \/ tickIn.detect.kind = "object" /\ tickIn.detect.found
       \/ tickIn.detect.kind = "array" /\ tickIn.detect.n > 0

(***************************************************************************)
(* C38: in the heuristic loop a tick whose detector result holds at least  *)
(* one detection ends in Tracking, whichever detector made the result: a   *)
(* non-empty list of the multi-cluster detector counts as found just as    *)
(* { found: true } of the single-marker one.                               *)
(***************************************************************************)
C38_AnyDetectionTracks ==
    HasDetection => isTracking

(***************************************************************************)
(* C39: in the overlay logic of the legacy page, in whatever order the     *)
(* click on enter-fullscreen, the settling of video.play(), the 500 ms     *)
(* timer and the exit from fullscreen come: while the page has left        *)
(* fullscreen and no click has come since, the overlay has neither the     *)
(* class hidden nor the class transparent and the video is paused; and the *)
(* overlay never has the class hidden while the page is not in fullscreen. *)
(***************************************************************************)
C39_OverlayShownOutsideFullscreen ==
    app = "overlay" =>
        /\ exited => fullscreenOverlay = {} /\ overlayVideo.paused
        /\ ~fullscreenElement => "hidden" \notin fullscreenOverlay

====
